---- MODULE Spec2Model ----
(***************************************************************************)
(* Payment gateway orchestrator: provider registry, per-provider circuit   *)
(* breakers, routing strategies and the retry/failover loop.               *)
(*                                                                         *)
(* Units: amounts are in cents, fee rates and network scores in hundredths,*)
(* processing times in milliseconds, the clock in whole seconds.           *)
(***************************************************************************)
EXTENDS Integers, Sequences, FiniteSets, TLC

VARIABLES
    providers,            \* PaymentGateway.providers: name -> provider counters
    circuit_breakers,     \* PaymentGateway.circuit_breakers: name -> breaker
    transactions,         \* PaymentGateway.transactions (index = transaction id)
    routing_strategy,     \* PaymentGateway.routing_strategy
    round_robin_counter,  \* PaymentGateway._round_robin_counter
    now,                  \* datetime.now(), whole seconds since construction
    events,               \* what monitor.emit_event handed to the observers
    pc,                   \* position of the call in progress
    cur,                  \* transaction and loop index of the call in progress
    response,             \* what the last finished call returned or raised
    workers,              \* worker threads calling through one breaker
    monitor,              \* PaymentGateway.monitor: observers and printed lines
    registry              \* the keys of PaymentGateway.providers, and the payment threads

vars == <<providers, circuit_breakers, transactions, routing_strategy,
          round_robin_counter, now, events, pc, cur, response, workers, monitor, registry>>

----------------------------------------------------------------------------
(* Bounds of the model *)

\* a call that makes attempts (process_payment, retry_payment) is started only
\* while the attempts of all transactions so far, plus the max_attempts it may
\* make, stay within this number
MaxTotalRoutes == 6
\* process_payment calls that create a transaction
MaxTx == 2
\* provider invocations made through one breaker when the breaker is exercised
\* on its own
MaxBreakerCalls == 8
\* the clock is advanced in steps of TickSeconds up to MaxNow seconds
TickSeconds == 15
MaxNow == 60
\* worker threads sharing one breaker and provider, and calls each makes
NumWorkers == 4
MaxCallsPerWorker == 1
\* observers registered with the monitor
MaxObservers == 2
\* process_payment calls made on a provider around its rate limit
MaxRateCalls == 3
\* attempt numbers for which the backoff delay is computed
MaxDelayAttempt == 8
\* payment threads running at the same time
MaxThreads == 2

----------------------------------------------------------------------------
(* Program constants *)

max_attempts == 3
initial_delay == 1
backoff_multiplier == 2
max_delay == 60
failure_threshold == 5
timeout_seconds == 30
half_open_max_calls == 3
rate_limit_threshold == 100
rate_limit_window == 60

retry_on_errors == {"TIMEOUT", "CONNECTION_REFUSED", "NETWORK_TIMEOUT", "PROVIDER_MAINTENANCE"}

\* registry in dict insertion order
ProviderOrder == <<"stripe", "adyen", "paypal", "razorpay">>
ProviderNames == {ProviderOrder[i] : i \in 1..Len(ProviderOrder)}

NoProvider == "none"
NoTime == -1

Strategies == {"health_based", "round_robin", "failover", "card_network_optimized", "cost_optimized"}

capabilities(p) ==
    CASE p = "stripe" ->
           [supported_networks |-> {"visa", "mastercard", "amex", "discover", "jcb"},
            supported_methods |-> {"card", "digital_wallet", "bank_transfer"},
            supported_currencies |-> {"USD", "EUR", "GBP", "SGD", "MYR"},
            supported_regions |-> {"north_america", "europe", "asia_pacific", "southeast_asia"},
            min_amount |-> 50, max_amount |-> 99999999, processing_fee |-> 290]
      [] p = "adyen" ->
           [supported_networks |-> {"visa", "mastercard", "amex", "discover", "jcb", "diners", "unionpay"},
            supported_methods |-> {"card", "digital_wallet", "bank_transfer", "buy_now_pay_later"},
            supported_currencies |-> {"USD", "EUR", "GBP", "SGD", "MYR", "THB", "IDR", "VND", "PHP"},
            supported_regions |-> {"north_america", "europe", "asia_pacific", "southeast_asia",
                                   "latin_america", "middle_east"},
            min_amount |-> 1, max_amount |-> 100000000, processing_fee |-> 250]
      [] p = "paypal" ->
           [supported_networks |-> {"visa", "mastercard", "amex"},
            supported_methods |-> {"digital_wallet", "card", "bank_transfer", "buy_now_pay_later"},
            supported_currencies |-> {"USD", "EUR", "GBP", "SGD", "MYR", "THB"},
            supported_regions |-> {"north_america", "europe", "asia_pacific", "southeast_asia",
                                   "latin_america"},
            min_amount |-> 100, max_amount |-> 6000000, processing_fee |-> 349]
      [] OTHER ->
           [supported_networks |-> {"visa", "mastercard", "amex", "jcb", "unionpay"},
            supported_methods |-> {"card", "digital_wallet", "bank_transfer", "buy_now_pay_later"},
            supported_currencies |-> {"SGD", "MYR", "THB", "IDR", "VND", "PHP", "USD", "EUR"},
            supported_regions |-> {"southeast_asia", "asia_pacific", "north_america", "europe"},
            min_amount |-> 10, max_amount |-> 50000000, processing_fee |-> 200]

\* configured mean latency of each provider, ms
avg_latency(p) ==
    CASE p = "stripe" -> 200 [] p = "adyen" -> 150 [] p = "paypal" -> 300 [] OTHER -> 180

get_network_preference_score(p, network) ==
    CASE p = "stripe" ->
           (CASE network = "visa" -> 100 [] network = "mastercard" -> 98
              [] network = "amex" -> 85 [] network = "discover" -> 95
              [] network = "jcb" -> 80 [] network = "diners" -> 70
              [] network = "unionpay" -> 60 [] OTHER -> 50)
      [] p = "adyen" ->
           (CASE network = "visa" -> 100 [] network = "mastercard" -> 100
              [] network = "amex" -> 95 [] network = "discover" -> 90
              [] network = "jcb" -> 95 [] network = "diners" -> 85
              [] network = "unionpay" -> 90 [] OTHER -> 70)
      [] p = "paypal" ->
           (CASE network = "visa" -> 95 [] network = "mastercard" -> 95
              [] network = "amex" -> 90 [] network = "discover" -> 85
              [] network = "jcb" -> 70 [] network = "diners" -> 60
              [] network = "unionpay" -> 50 [] OTHER -> 40)
      [] OTHER ->
           (CASE network = "visa" -> 98 [] network = "mastercard" -> 96
              [] network = "unionpay" -> 92 [] network = "jcb" -> 90
              [] network = "amex" -> 75 [] network = "discover" -> 70
              [] network = "diners" -> 65 [] OTHER -> 50)

get_specific_errors(p) ==
    CASE p = "stripe" ->
           {"CARD_DECLINED", "INSUFFICIENT_FUNDS", "TIMEOUT", "INVALID_CARD_NUMBER",
            "EXPIRED_CARD", "INVALID_CVV", "FRAUD_DETECTED"}
      [] p = "adyen" ->
           {"AUTHENTICATION_FAILED", "BLOCKED_CARD", "TIMEOUT", "NETWORK_UNAVAILABLE",
            "ISSUER_UNAVAILABLE", "CURRENCY_NOT_SUPPORTED"}
      [] p = "paypal" ->
           {"ACCOUNT_RESTRICTED", "CURRENCY_NOT_SUPPORTED", "TIMEOUT",
            "WALLET_INSUFFICIENT_BALANCE", "WALLET_SUSPENDED", "FRAUD_DETECTED"}
      [] OTHER ->
           {"REGION_BLOCKED", "COMPLIANCE_VIOLATION", "TIMEOUT", "CURRENCY_NOT_SUPPORTED",
            "BANK_TRANSFER_LIMIT_EXCEEDED", "NETWORK_TIMEOUT"}

----------------------------------------------------------------------------
(* Provider: capability check, rate limit, processing, health *)

\* PaymentProvider.__init__
NewProvider ==
    [request_count |-> 0, failure_count |-> 0, total_processing_time |-> 0,
     is_maintenance |-> FALSE, rate_limit_counter |-> 0, rate_limit_reset_time |-> 0]

\* mutant: the amount is checked against max_amount only
can_process_transaction_MaxOnly(p, tx) ==
    LET c == capabilities(p) IN
    /\ tx.currency \in c.supported_currencies
    /\ tx.amount <= c.max_amount
    /\ (tx.method # "none" =>
          /\ tx.method \in c.supported_methods
          /\ ~(tx.method = "card" /\ tx.network # "none"
               /\ tx.network \notin c.supported_networks))
    /\ ~(tx.region # "none" /\ tx.region \notin c.supported_regions)

\* PaymentProvider.can_process_transaction; "none" stands for an absent
\* instrument, network or customer region
can_process_transaction(p, tx) ==
    LET c == capabilities(p) IN
    /\ tx.currency \in c.supported_currencies
    /\ c.min_amount <= tx.amount /\ tx.amount <= c.max_amount
    /\ (tx.method # "none" =>
          /\ tx.method \in c.supported_methods
          /\ ~(tx.method = "card" /\ tx.network # "none"
               /\ tx.network \notin c.supported_networks))
    /\ ~(tx.region # "none" /\ tx.region \notin c.supported_regions)

\* mutant: the counter is compared with > instead of >=
_is_rate_limited_OffByOne(pr, t) ==
    LET w == IF t > pr.rate_limit_reset_time
             THEN [pr EXCEPT !.rate_limit_counter = 0,
                             !.rate_limit_reset_time = t + rate_limit_window]
             ELSE pr
    IN IF w.rate_limit_counter > rate_limit_threshold
       THEN [limited |-> TRUE, pr |-> w]
       ELSE [limited |-> FALSE,
             pr |-> [w EXCEPT !.rate_limit_counter = w.rate_limit_counter + 1]]

\* PaymentProvider._is_rate_limited: the answer and the provider afterwards
_is_rate_limited(pr, t) ==
    LET w == IF t > pr.rate_limit_reset_time
             THEN [pr EXCEPT !.rate_limit_counter = 0,
                             !.rate_limit_reset_time = t + rate_limit_window]
             ELSE pr
    IN IF w.rate_limit_counter >= rate_limit_threshold
       THEN [limited |-> TRUE, pr |-> w]
       ELSE [limited |-> FALSE,
             pr |-> [w EXCEPT !.rate_limit_counter = w.rate_limit_counter + 1]]

\* sampled values of random.uniform(0.7, 1.3), in percent
LatencyVariation == {100}

network_multiplier(network) ==
    CASE network = "visa" -> 10 [] network = "mastercard" -> 11 [] network = "amex" -> 13
      [] network = "discover" -> 12 [] network = "jcb" -> 14 [] network = "unionpay" -> 15
      [] OTHER -> 10

method_multiplier(method) ==
    CASE method = "card" -> 10 [] method = "digital_wallet" -> 8
      [] method = "bank_transfer" -> 20 [] method = "cryptocurrency" -> 30 [] OTHER -> 10

\* PaymentProvider._calculate_processing_latency, in ms
_calculate_processing_latency(p, tx, variation) ==
    (avg_latency(p) * network_multiplier(tx.network) * method_multiplier(tx.method)
       * variation) \div 10000

network_fee_multiplier(network) ==
    CASE network = "visa" -> 100 [] network = "mastercard" -> 105 [] network = "amex" -> 150
      [] network = "discover" -> 110 [] network = "jcb" -> 130 [] network = "unionpay" -> 120
      [] OTHER -> 100

\* PaymentProvider._calculate_fee, in millionths of a cent
_calculate_fee(p, tx) ==
    tx.amount * capabilities(p).processing_fee * network_fee_multiplier(tx.network)

\* the error kinds the model lets random.choice return
ErrorSample == {"TIMEOUT", "INSUFFICIENT_FUNDS"}

\* PaymentProvider._select_contextual_error: the list random.choice draws from
_select_contextual_error(p, tx) ==
    get_specific_errors(p)
      \cup (IF tx.network = "amex" THEN {"AUTHENTICATION_FAILED", "BLOCKED_CARD"} ELSE {})
      \cup (IF tx.network \in {"jcb", "unionpay"}
            THEN {"REGION_BLOCKED", "CURRENCY_NOT_SUPPORTED"} ELSE {})
      \cup (IF tx.amount > 500000 THEN {"INSUFFICIENT_FUNDS", "FRAUD_DETECTED"} ELSE {})
      \cup (IF tx.method = "digital_wallet"
            THEN {"WALLET_INSUFFICIENT_BALANCE", "WALLET_SUSPENDED"} ELSE {})
      \cup (IF tx.method = "bank_transfer"
            THEN {"BANK_ACCOUNT_CLOSED", "BANK_TRANSFER_LIMIT_EXCEEDED"} ELSE {})

\* PaymentProvider.process_payment: every outcome one call can have, each with
\* the provider's counters afterwards.  ok = FALSE is a raised ProviderError.
process_payment_outcomes(p, pr, tx, t) ==
    LET counted == [pr EXCEPT !.request_count = pr.request_count + 1]
        rl == _is_rate_limited(counted, t)
    IN IF ~can_process_transaction(p, tx)
       THEN {[ok |-> FALSE, code |-> "UNSUPPORTED_TRANSACTION", pr |-> counted,
              processing_time |-> 0, processing_fee |-> 0]}
       ELSE IF rl.limited
       THEN {[ok |-> FALSE, code |-> "RATE_LIMITED", pr |-> rl.pr,
              processing_time |-> 0, processing_fee |-> 0]}
       ELSE IF rl.pr.is_maintenance
       THEN {[ok |-> FALSE, code |-> "PROVIDER_MAINTENANCE", pr |-> rl.pr,
              processing_time |-> 0, processing_fee |-> 0]}
       ELSE UNION {
              LET ms == _calculate_processing_latency(p, tx, v)
                  timed == [rl.pr EXCEPT !.total_processing_time = @ + ms]
              IN {[ok |-> TRUE, code |-> "SUCCESS", pr |-> timed,
                   processing_time |-> ms, processing_fee |-> _calculate_fee(p, tx)]}
                 \cup
                 {[ok |-> FALSE, code |-> e,
                   pr |-> [timed EXCEPT !.failure_count = @ + 1],
                   processing_time |-> ms, processing_fee |-> 0]
                    : e \in _select_contextual_error(p, tx) \cap ErrorSample}
              : v \in LatencyVariation}

\* PaymentProvider.get_health: is_healthy
is_healthy(pr) ==
    /\ (pr.request_count = 0 \/ 2 * (pr.request_count - pr.failure_count) > pr.request_count)
    /\ ~pr.is_maintenance

----------------------------------------------------------------------------
(* Circuit breaker *)

\* CircuitBreaker.__init__
NewBreaker ==
    [state |-> "CLOSED", failure_count |-> 0, success_count |-> 0,
     last_failure_time |-> NoTime, half_open_calls |-> 0]

\* mutant: the reset is attempted after half the timeout
_should_attempt_reset_Early(cb, t) ==
    \/ cb.last_failure_time = NoTime
    \/ 2 * (t - cb.last_failure_time) >= timeout_seconds

\* CircuitBreaker._should_attempt_reset
_should_attempt_reset(cb, t) ==
    \/ cb.last_failure_time = NoTime
    \/ t - cb.last_failure_time >= timeout_seconds

\* mutant: the move to HALF_OPEN keeps the old half_open_calls
call_check_KeepsCalls(cb, t) ==
    LET probed == IF cb.state = "OPEN" /\ _should_attempt_reset(cb, t)
                  THEN [cb EXCEPT !.state = "HALF_OPEN"]
                  ELSE cb
    IN IF probed.state = "OPEN"
       THEN [admitted |-> FALSE, reason |-> "Circuit breaker is OPEN", cb |-> probed]
       ELSE IF probed.state = "HALF_OPEN" /\ probed.half_open_calls >= half_open_max_calls
       THEN [admitted |-> FALSE, reason |-> "Circuit breaker HALF_OPEN call limit exceeded",
             cb |-> probed]
       ELSE [admitted |-> TRUE, reason |-> "", cb |-> probed]

\* mutant: the OPEN state is never checked, only the HALF_OPEN call limit
call_check_IgnoresOpen(cb, t) ==
    IF cb.state = "HALF_OPEN" /\ cb.half_open_calls >= half_open_max_calls
    THEN [admitted |-> FALSE, reason |-> "Circuit breaker HALF_OPEN call limit exceeded",
          cb |-> cb]
    ELSE [admitted |-> TRUE, reason |-> "", cb |-> cb]

\* CircuitBreaker.call up to the invocation of func: whether the call is
\* admitted, and the breaker after the state check
call_check(cb, t) ==
    LET probed == IF cb.state = "OPEN" /\ _should_attempt_reset(cb, t)
                  THEN [cb EXCEPT !.state = "HALF_OPEN", !.half_open_calls = 0]
                  ELSE cb
    IN IF probed.state = "OPEN"
       THEN [admitted |-> FALSE, reason |-> "Circuit breaker is OPEN", cb |-> probed]
       ELSE IF probed.state = "HALF_OPEN" /\ probed.half_open_calls >= half_open_max_calls
       THEN [admitted |-> FALSE, reason |-> "Circuit breaker HALF_OPEN call limit exceeded",
             cb |-> probed]
       ELSE [admitted |-> TRUE, reason |-> "", cb |-> probed]

\* mutant: the success that reaches half_open_max_calls does not close
_on_success_StaysHalfOpen(cb) ==
    LET c == [cb EXCEPT !.success_count = @ + 1] IN
    IF c.state = "HALF_OPEN"
    THEN [c EXCEPT !.half_open_calls = @ + 1]
    ELSE IF c.state = "CLOSED"
    THEN [c EXCEPT !.failure_count = IF @ - 1 > 0 THEN @ - 1 ELSE 0]
    ELSE c

\* mutant: a success in CLOSED decrements failure_count without the floor
_on_success_NoFloor(cb) ==
    LET c == [cb EXCEPT !.success_count = @ + 1] IN
    IF c.state = "HALF_OPEN"
    THEN LET h == [c EXCEPT !.half_open_calls = @ + 1] IN
         IF h.half_open_calls >= half_open_max_calls
         THEN [h EXCEPT !.state = "CLOSED", !.failure_count = 0, !.success_count = 0]
         ELSE h
    ELSE IF c.state = "CLOSED"
    THEN [c EXCEPT !.failure_count = @ - 1]
    ELSE c

\* mutant: a success in CLOSED resets failure_count to 0
_on_success_Resets(cb) ==
    LET c == [cb EXCEPT !.success_count = @ + 1] IN
    IF c.state = "HALF_OPEN"
    THEN LET h == [c EXCEPT !.half_open_calls = @ + 1] IN
         IF h.half_open_calls >= half_open_max_calls
         THEN [h EXCEPT !.state = "CLOSED", !.failure_count = 0, !.success_count = 0]
         ELSE h
    ELSE IF c.state = "CLOSED"
    THEN [c EXCEPT !.failure_count = 0]
    ELSE c

\* CircuitBreaker._on_success
_on_success(cb) ==
    LET c == [cb EXCEPT !.success_count = @ + 1] IN
    IF c.state = "HALF_OPEN"
    THEN LET h == [c EXCEPT !.half_open_calls = @ + 1] IN
         IF h.half_open_calls >= half_open_max_calls
         THEN [h EXCEPT !.state = "CLOSED", !.failure_count = 0, !.success_count = 0]
         ELSE h
    ELSE IF c.state = "CLOSED"
    THEN [c EXCEPT !.failure_count = IF @ - 1 > 0 THEN @ - 1 ELSE 0]
    ELSE c

\* mutant: a failure counts twice
_on_failure_Twice(cb, t) ==
    LET c == [cb EXCEPT !.failure_count = @ + 2, !.last_failure_time = t] IN
    IF c.state = "HALF_OPEN"
    THEN [c EXCEPT !.state = "OPEN"]
    ELSE IF c.state = "CLOSED" /\ c.failure_count >= failure_threshold
    THEN [c EXCEPT !.state = "OPEN"]
    ELSE c

\* mutant: the threshold test is > instead of >=
_on_failure_Late(cb, t) ==
    LET c == [cb EXCEPT !.failure_count = @ + 1, !.last_failure_time = t] IN
    IF c.state = "HALF_OPEN"
    THEN [c EXCEPT !.state = "OPEN"]
    ELSE IF c.state = "CLOSED" /\ c.failure_count > failure_threshold
    THEN [c EXCEPT !.state = "OPEN"]
    ELSE c

\* CircuitBreaker._on_failure
_on_failure(cb, t) ==
    LET c == [cb EXCEPT !.failure_count = @ + 1, !.last_failure_time = t] IN
    IF c.state = "HALF_OPEN"
    THEN [c EXCEPT !.state = "OPEN"]
    ELSE IF c.state = "CLOSED" /\ c.failure_count >= failure_threshold
    THEN [c EXCEPT !.state = "OPEN"]
    ELSE c

\* mutant: force_open without the stamp of last_failure_time
force_open_NoStamp(cb, t) == [cb EXCEPT !.state = "OPEN"]

\* CircuitBreaker.force_open
force_open(cb, t) == [cb EXCEPT !.state = "OPEN", !.last_failure_time = t]

\* CircuitBreaker.force_close
force_close(cb) ==
    [cb EXCEPT !.state = "CLOSED", !.failure_count = 0, !.success_count = 0,
               !.half_open_calls = 0, !.last_failure_time = NoTime]

----------------------------------------------------------------------------
(* Router.  names is the registry the selection iterates, in order; prs and  *)
(* cbs are the provider and breaker states it reads; tx = NoTransaction is   *)
(* the call without a transaction.                                           *)

NoTransaction == [id |-> 0]

RECURSIVE TotalRoutes(_)
TotalRoutes(txs) ==
    IF txs = <<>> THEN 0 ELSE Len(Head(txs).route_history) + TotalRoutes(Tail(txs))

WithinBudget(txs) == TotalRoutes(txs) + max_attempts <= MaxTotalRoutes

SeqToSet(names) == {names[i] : i \in 1..Len(names)}

\* mutant: the selection does not read the breaker state
HealthyAndNotOpen_AnyState(p, prs, cbs) == is_healthy(prs[p])

\* the condition every scoring strategy applies: health.is_healthy and
\* circuit_state.value != 'OPEN'
HealthyAndNotOpen(p, prs, cbs) == is_healthy(prs[p]) /\ cbs[p].state # "OPEN"

\* health.success_rate * (1000 / max(health.avg_latency, 1)) as a fraction
HealthScore(pr) ==
    IF pr.request_count = 0
    THEN [num |-> 1000, den |-> 1]
    ELSE [num |-> 1000 * (pr.request_count - pr.failure_count),
          den |-> IF pr.total_processing_time > pr.request_count
                  THEN pr.total_processing_time ELSE pr.request_count]

\* health.success_rate * network_score as a fraction
NetworkScore(p, pr, network) ==
    IF pr.request_count = 0
    THEN [num |-> get_network_preference_score(p, network), den |-> 1]
    ELSE [num |-> (pr.request_count - pr.failure_count)
                    * get_network_preference_score(p, network),
          den |-> pr.request_count]

\* transaction.amount * (fee_rate / 100), in ten-thousandths of a cent
EstimatedCost(p, tx) == [num |-> tx.amount * capabilities(p).processing_fee, den |-> 1]

Greater(a, b) == a.num * b.den > b.num * a.den

\* the loop "if score > best_score: best = name" over names: the first of the
\* candidates that no candidate beats; NoProvider when there is no candidate
FirstBest(names, IsCandidate(_), Beats(_, _)) ==
    LET idx == {i \in 1..Len(names) :
                  /\ IsCandidate(names[i])
                  /\ \A j \in 1..Len(names) :
                       IsCandidate(names[j]) =>
                         /\ ~Beats(names[j], names[i])
                         /\ (j < i => Beats(names[i], names[j]))}
    IN IF idx = {} THEN NoProvider ELSE names[CHOOSE i \in idx : TRUE]

\* PaymentGateway._select_healthiest_provider
_select_healthiest_provider(tx, names, prs, cbs) ==
    LET Cand(p) == /\ (tx # NoTransaction => can_process_transaction(p, tx))
                   /\ HealthyAndNotOpen(p, prs, cbs)
        Beats(a, b) == Greater(HealthScore(prs[a]), HealthScore(prs[b]))
        best == FirstBest(names, Cand, Beats)
    IN IF best = NoProvider THEN "stripe" ELSE best

\* PaymentGateway._select_network_optimized
_select_network_optimized(tx, names, prs, cbs) ==
    IF tx = NoTransaction \/ tx.method = "none" \/ tx.network = "none"
    THEN _select_healthiest_provider(tx, names, prs, cbs)
    ELSE LET Cand(p) == can_process_transaction(p, tx) /\ HealthyAndNotOpen(p, prs, cbs)
             Beats(a, b) == Greater(NetworkScore(a, prs[a], tx.network),
                                    NetworkScore(b, prs[b], tx.network))
             best == FirstBest(names, Cand, Beats)
         IN IF best = NoProvider THEN "stripe" ELSE best

\* PaymentGateway._select_cost_optimized
_select_cost_optimized(tx, names, prs, cbs) ==
    IF tx = NoTransaction
    THEN _select_healthiest_provider(tx, names, prs, cbs)
    ELSE LET Cand(p) == can_process_transaction(p, tx) /\ HealthyAndNotOpen(p, prs, cbs)
             Beats(a, b) == Greater(EstimatedCost(b, tx), EstimatedCost(a, tx))
             best == FirstBest(names, Cand, Beats)
         IN IF best = NoProvider THEN "stripe" ELSE best

\* PaymentGateway._select_round_robin: the provider and the counter afterwards
_select_round_robin(tx, names, rr) ==
    LET Compat(p) == can_process_transaction(p, tx)
        compatible == IF tx = NoTransaction THEN <<>> ELSE SelectSeq(names, Compat)
        provider_names == IF compatible # <<>> THEN compatible ELSE names
        counter == (rr + 1) % Len(provider_names)
    IN [provider |-> provider_names[counter + 1], counter |-> counter]

preference_order == <<"stripe", "adyen", "paypal", "razorpay">>

\* PaymentGateway._select_failover
_select_failover(tx, names, prs, cbs) ==
    LET Ok(p) == /\ p \in SeqToSet(names)
                 /\ (tx # NoTransaction => can_process_transaction(p, tx))
                 /\ HealthyAndNotOpen(p, prs, cbs)
        ok == SelectSeq(preference_order, Ok)
    IN IF ok = <<>> THEN "stripe" ELSE Head(ok)

\* PaymentGateway._select_optimal_provider: the provider and the round-robin
\* counter afterwards
_select_optimal_provider(strategy, tx, names, prs, cbs, rr) ==
    CASE strategy = "health_based" ->
           [provider |-> _select_healthiest_provider(tx, names, prs, cbs), counter |-> rr]
      [] strategy = "round_robin" -> _select_round_robin(tx, names, rr)
      [] strategy = "failover" ->
           [provider |-> _select_failover(tx, names, prs, cbs), counter |-> rr]
      [] strategy = "card_network_optimized" ->
           [provider |-> _select_network_optimized(tx, names, prs, cbs), counter |-> rr]
      [] strategy = "cost_optimized" ->
           [provider |-> _select_cost_optimized(tx, names, prs, cbs), counter |-> rr]
      [] OTHER -> [provider |-> "stripe", counter |-> rr]

\* PaymentGateway._switch_provider: the transaction's next provider, chosen
\* from the registry without the current one, and the counter afterwards
_switch_provider(strategy, tx, prs, cbs, rr) ==
    LET NotCurrent(p) == p # tx.provider
        temp_providers == SelectSeq(ProviderOrder, NotCurrent)
    IN IF temp_providers = <<>>
       THEN [provider |-> tx.provider, counter |-> rr]
       ELSE _select_optimal_provider(strategy, tx, temp_providers, prs, cbs, rr)

\* RetryConfig.get_delay, whole seconds
RECURSIVE Power(_, _)
Power(b, n) == IF n <= 0 THEN 1 ELSE b * Power(b, n - 1)

\* mutant: the exponent is the attempt number itself
get_delay_FromAttempt(attempt) ==
    LET delay == initial_delay * Power(backoff_multiplier, attempt)
    IN IF delay < max_delay THEN delay ELSE max_delay

get_delay(attempt) ==
    LET delay == initial_delay * Power(backoff_multiplier, attempt - 1)
    IN IF delay < max_delay THEN delay ELSE max_delay

----------------------------------------------------------------------------
(* Gateway state and operations *)

\* the payment requests the model submits: amount, currency, instrument
\* method and network, customer region
TxInputs ==
    { [amount |-> 10000, currency |-> "USD", method |-> "card", network |-> "visa",
       region |-> "north_america"],
      [amount |-> 10000, currency |-> "GBP", method |-> "card", network |-> "discover",
       region |-> "europe"] }

\* the preferred_provider arguments the model submits; NoProvider is None
PreferredInputs == {NoProvider, "paypal", "bogus"}

Idle == [op |-> "none", tx |-> 0, attempt |-> 0]

NoResponse ==
    [op |-> "none", kind |-> "none", success |-> FALSE, error |-> "",
     transaction |-> NoTransaction]

\* the callables registered with add_observer: one that records the event,
\* one that raises, and StructuredLogger.log_payment_event with a log file
\* that can and that cannot be written
ObserverKinds == {"recorder", "raiser", "logger", "failing_logger"}

\* an observer that has received nothing yet
NewObserver(kind) == [kind |-> kind, received |-> 0, written |-> 0]

\* PaymentMonitor.__init__; printed counts the lines written to stdout
NewMonitor == [observers |-> <<>>, printed |-> 0]

\* StructuredLogger._write_log: the entry is appended to the log file, or the
\* exception of open, json.dump or write is caught and printed
_write_log(o, writable) ==
    IF writable
    THEN [observer |-> [o EXCEPT !.written = @ + 1], printed |-> 0, raised |-> FALSE]
    ELSE [observer |-> o, printed |-> 1, raised |-> FALSE]

\* observer(event): the observer afterwards, the lines it printed and whether
\* the call raised
observer_call(o, e) ==
    LET got == [o EXCEPT !.received = @ + 1] IN
    CASE o.kind = "recorder" -> [observer |-> got, printed |-> 0, raised |-> FALSE]
      [] o.kind = "raiser" -> [observer |-> got, printed |-> 0, raised |-> TRUE]
      [] o.kind = "logger" -> _write_log(got, TRUE)
      [] OTHER -> _write_log(got, FALSE)

\* mutant: emit_event without the try block: the first exception of an
\* observer ends the loop and reaches the caller
emit_event_Propagates(m, e) ==
    LET r(i) == observer_call(m.observers[i], e)
        called == {i \in 1..Len(m.observers) : \A j \in 1..(i - 1) : ~r(j).raised}
    IN [monitor |-> [observers |-> [i \in 1..Len(m.observers) |->
                                      IF i \in called THEN r(i).observer
                                      ELSE m.observers[i]],
                     printed |-> m.printed
                                   + Cardinality({i \in called : r(i).printed > 0})],
        raised |-> \E i \in called : r(i).raised]

\* PaymentMonitor.emit_event: every observer of the copy is called inside a
\* try block, and an exception is printed and dropped
emit_event(m, e) ==
    LET r(i) == observer_call(m.observers[i], e)
        called == 1..Len(m.observers)
    IN [monitor |-> [observers |-> [i \in called |-> r(i).observer],
                     printed |-> m.printed
                                   + Cardinality({i \in called : r(i).raised})
                                   + Cardinality({i \in called : r(i).printed > 0})],
        raised |-> FALSE]

\* the monitor after the events evs went through emit_event one by one
RECURSIVE EmitAll(_, _)
EmitAll(m, evs) ==
    IF evs = <<>> THEN m ELSE EmitAll(emit_event(m, Head(evs)).monitor, Tail(evs))

Workers == 1..NumWorkers

\* a worker outside any call; calls counts the calls it has started
IdleWorker == [pc |-> "idle", read |-> 0, episode |-> NoTime, calls |-> 0]

\* a payment thread that has not started: transaction.provider, the loop
\* index of _attempt_payment, original_providers of _switch_provider, and the
\* Routes with status 'error' it has appended
IdleThread ==
    [pc |-> "idle", provider |-> NoProvider, attempt |-> 0,
     original_providers |-> <<>>, errors |-> 0]

\* self.providers after __init__, and no payment thread started
NewRegistry == [names |-> ProviderOrder, threads |-> [w \in Workers |-> IdleThread]]

\* PaymentGateway.__init__ with the default routing strategy
Init ==
    /\ providers = [p \in ProviderNames |-> NewProvider]
    /\ circuit_breakers = [p \in ProviderNames |-> NewBreaker]
    /\ transactions = <<>>
    /\ routing_strategy = "health_based"
    /\ round_robin_counter = 0
    /\ now = 0
    /\ events = <<>>
    /\ pc = "idle"
    /\ cur = Idle
    /\ response = NoResponse
    /\ workers = [w \in Workers |-> IdleWorker]
    /\ monitor = NewMonitor
    /\ registry = NewRegistry

\* a returned envelope; view is transaction.to_dict() where there is one
Returned(op, success, error, view) ==
    [op |-> op, kind |-> "returned", success |-> success, error |-> error,
     transaction |-> view]

\* an exception that reaches the caller
Raised(op, exception) ==
    [op |-> op, kind |-> "raised", success |-> FALSE, error |-> exception,
     transaction |-> NoTransaction]

\* PaymentEvent(event_type, transaction, provider) as the observers see it
\* when it is emitted
PaymentEvent(event_type, tx) ==
    [event_type |-> event_type, transaction |-> tx, provider |-> tx.provider]

\* Route.routing_decision = None, the default of the field: no RoutingDecision
\* is selected for any provider
NoDecision == [selected_provider |-> NoProvider]

\* Route(provider, attempt_number, status, timestamp, reason, processing_time),
\* routing_decision left at its default;
\* reason holds the error code that the message str(e) was built from
Route(provider, attempt_number, status, reason, processing_time) ==
    [provider |-> provider, attempt_number |-> attempt_number, status |-> status,
     reason |-> reason, processing_time |-> processing_time,
     routing_decision |-> NoDecision]

\* Transaction(id, amount, ..., provider="temp", status=PENDING, ...)
NewTransaction(id, input) ==
    [id |-> id, amount |-> input.amount, currency |-> input.currency,
     method |-> input.method, network |-> input.network, region |-> input.region,
     provider |-> "temp", status |-> "pending", attempts |-> 0, route_history |-> <<>>,
     metadata |-> [provider |-> NoProvider, processing_fee |-> 0]]

\* mutant: the transaction is stored before the preferred provider is checked
ProcessPayment_StoresFirst(input, preferred) ==
    /\ pc = "idle"
    /\ UNCHANGED <<workers, monitor, registry>>
    /\ Len(transactions) < MaxTx
    /\ transactions' = Append(transactions, NewTransaction(Len(transactions) + 1, input))
    /\ response' = Raised("process_payment", "InvalidProviderError")
    /\ UNCHANGED <<providers, circuit_breakers, routing_strategy, round_robin_counter,
                   now, events, pc, cur>>

\* PaymentGateway.process_payment up to the call of _attempt_payment, with m
\* the monitor that emit_event runs on
ProcessPaymentOn(m, input, preferred) ==
    /\ pc = "idle"
    /\ IF preferred # NoProvider /\ preferred \notin ProviderNames
       THEN /\ response' = Raised("process_payment", "InvalidProviderError")
            /\ UNCHANGED <<providers, circuit_breakers, transactions, routing_strategy,
                           round_robin_counter, now, events, pc, cur>>
       ELSE /\ WithinBudget(transactions)
            /\ Len(transactions) < MaxTx
            /\ LET id == Len(transactions) + 1
                   created == NewTransaction(id, input)
                   sel == IF preferred # NoProvider
                          THEN [provider |-> preferred, counter |-> round_robin_counter]
                          ELSE _select_optimal_provider(routing_strategy, created,
                                   ProviderOrder, providers, circuit_breakers,
                                   round_robin_counter)
                   tx == [created EXCEPT !.provider = sel.provider]
                   initiated == PaymentEvent("payment_initiated", tx)
               IN /\ transactions' = Append(transactions, tx)
                  /\ round_robin_counter' = sel.counter
                  /\ events' = Append(events, initiated)
                  /\ IF emit_event(m, initiated).raised
                     THEN /\ response' = Raised("process_payment", "Exception")
                          /\ UNCHANGED <<pc, cur>>
                     ELSE /\ pc' = "attempting"
                          /\ cur' = [op |-> "process_payment", tx |-> id, attempt |-> 0]
                          /\ UNCHANGED response
            /\ UNCHANGED <<providers, circuit_breakers, routing_strategy, now>>

\* the events the step has emitted, delivered to the observers
Delivered == EmitAll(monitor, SubSeq(events', Len(events) + 1, Len(events')))

\* PaymentGateway.process_payment on the gateway's own monitor
ProcessPayment(input, preferred) ==
    /\ ProcessPaymentOn(monitor, input, preferred)
    /\ monitor' = Delivered
    /\ UNCHANGED <<workers, registry>>

\* mutant: the success branch appends the Route and leaves the status alone
RecordSuccess_KeepsStatus(t1, attempt, o) ==
    [t1 EXCEPT !.route_history =
                   Append(@, Route(t1.provider, attempt + 1, "success", "",
                                   o.processing_time)),
               !.metadata = [provider |-> t1.provider,
                             processing_fee |-> o.processing_fee]]

\* the success branch of _attempt_payment: the transaction after the Route
\* is appended, the status set and the metadata updated
RecordSuccess(t1, attempt, o) ==
    [t1 EXCEPT !.route_history =
                   Append(@, Route(t1.provider, attempt + 1, "success", "",
                                   o.processing_time)),
               !.status = "success",
               !.metadata = [provider |-> t1.provider,
                             processing_fee |-> o.processing_fee]]

\* the except branch of _attempt_payment: the transaction after the failed
\* Route is appended
RecordFailure(t1, attempt, reason) ==
    [t1 EXCEPT !.route_history = Append(@, Route(t1.provider, attempt + 1, "failed",
                                                 reason, 0))]

\* mutant: the loop goes round once more
TriesAgain_OneMore(attempt, reason) == attempt < max_attempts

\* "if attempt < self.retry_config.max_attempts - 1": whether the loop goes
\* on to another provider after this failure
TriesAgain(attempt, reason) == attempt < max_attempts - 1

\* an exception of emit_event leaves _attempt_payment, which catches only
\* ProviderError and CircuitBreakerError: the call ends with what it has
\* written so far
Propagated(txs, evs) ==
    /\ transactions' = txs
    /\ events' = evs
    /\ response' = Raised(cur.op, "Exception")
    /\ pc' = "idle"
    /\ cur' = Idle
    /\ UNCHANGED <<round_robin_counter, now>>

\* mutant: a failed attempt emits no payment_failure event
AfterFailure_NoFailureEvent(m, t1, reason, prs1, cbs1) ==
    LET t2 == RecordFailure(t1, cur.attempt, reason)
        failure == PaymentEvent("payment_failure", t2)
        ev1 == events
        em1 == emit_event(m, failure)
    IN /\ providers' = prs1
       /\ circuit_breakers' = cbs1
       /\ IF em1.raised
          THEN Propagated([transactions EXCEPT ![cur.tx] = t2], ev1)
          ELSE IF TriesAgain(cur.attempt, reason)
          THEN LET sw == _switch_provider(routing_strategy, t2, prs1, cbs1,
                                          round_robin_counter)
                   t3 == [t2 EXCEPT !.provider = sw.provider]
               IN /\ transactions' = [transactions EXCEPT ![cur.tx] = t3]
                  /\ round_robin_counter' = sw.counter
                  /\ events' = ev1
                  /\ now' = now + get_delay(cur.attempt + 1)
                  /\ cur' = [cur EXCEPT !.attempt = @ + 1]
                  /\ UNCHANGED <<pc, response>>
          ELSE LET t3 == [t2 EXCEPT !.status = "failed"]
                   final == PaymentEvent("payment_final_failure", t3)
               IN IF emit_event(em1.monitor, final).raised
                  THEN Propagated([transactions EXCEPT ![cur.tx] = t3],
                                  Append(ev1, final))
                  ELSE /\ transactions' = [transactions EXCEPT ![cur.tx] = t3]
                       /\ events' = Append(ev1, final)
                       /\ response' = Returned(cur.op, FALSE,
                                          "Payment failed after all retry attempts", t3)
                       /\ pc' = "idle"
                       /\ cur' = Idle
                       /\ UNCHANGED <<round_robin_counter, now>>

\* what follows a failed attempt in _attempt_payment: the failed Route, the
\* payment_failure event, then either the switch and the backoff sleep or the
\* end of the loop
AfterFailure(m, t1, reason, prs1, cbs1) ==
    LET t2 == RecordFailure(t1, cur.attempt, reason)
        failure == PaymentEvent("payment_failure", t2)
        ev1 == Append(events, failure)
        em1 == emit_event(m, failure)
    IN /\ providers' = prs1
       /\ circuit_breakers' = cbs1
       /\ IF em1.raised
          THEN Propagated([transactions EXCEPT ![cur.tx] = t2], ev1)
          ELSE IF TriesAgain(cur.attempt, reason)
          THEN LET sw == _switch_provider(routing_strategy, t2, prs1, cbs1,
                                          round_robin_counter)
                   t3 == [t2 EXCEPT !.provider = sw.provider]
               IN /\ transactions' = [transactions EXCEPT ![cur.tx] = t3]
                  /\ round_robin_counter' = sw.counter
                  /\ events' = ev1
                  /\ now' = now + get_delay(cur.attempt + 1)
                  /\ cur' = [cur EXCEPT !.attempt = @ + 1]
                  /\ UNCHANGED <<pc, response>>
          ELSE LET t3 == [t2 EXCEPT !.status = "failed"]
                   final == PaymentEvent("payment_final_failure", t3)
               IN IF emit_event(em1.monitor, final).raised
                  THEN Propagated([transactions EXCEPT ![cur.tx] = t3],
                                  Append(ev1, final))
                  ELSE /\ transactions' = [transactions EXCEPT ![cur.tx] = t3]
                       /\ events' = Append(ev1, final)
                       /\ response' = Returned(cur.op, FALSE,
                                          "Payment failed after all retry attempts", t3)
                       /\ pc' = "idle"
                       /\ cur' = Idle
                       /\ UNCHANGED <<round_robin_counter, now>>

\* one iteration of the loop of PaymentGateway._attempt_payment, and the end
\* of the loop when it is the last one
AttemptPaymentOn(m) ==
    /\ pc = "attempting"
    /\ LET t1 == [transactions[cur.tx] EXCEPT !.attempts = cur.attempt + 1]
           p == t1.provider
           chk == call_check(circuit_breakers[p], now)
       IN IF ~chk.admitted
          THEN AfterFailure(m, t1, chk.reason, providers,
                            [circuit_breakers EXCEPT ![p] = chk.cb])
          ELSE \E o \in process_payment_outcomes(p, providers[p], t1, now) :
                 LET prs1 == [providers EXCEPT ![p] = o.pr] IN
                 IF o.ok
                 THEN LET t2 == RecordSuccess(t1, cur.attempt, o)
                          success == PaymentEvent("payment_success", t2)
                      IN /\ providers' = prs1
                         /\ circuit_breakers' =
                              [circuit_breakers EXCEPT ![p] = _on_success(chk.cb)]
                         /\ IF emit_event(m, success).raised
                            THEN Propagated([transactions EXCEPT ![cur.tx] = t2],
                                            Append(events, success))
                            ELSE /\ transactions' = [transactions EXCEPT ![cur.tx] = t2]
                                 /\ events' = Append(events, success)
                                 /\ response' = Returned(cur.op, TRUE, "", t2)
                                 /\ pc' = "idle"
                                 /\ cur' = Idle
                                 /\ UNCHANGED <<round_robin_counter, now>>
                 ELSE AfterFailure(m, t1, o.code, prs1,
                          [circuit_breakers EXCEPT ![p] = _on_failure(chk.cb, now)])
    /\ UNCHANGED routing_strategy

\* PaymentGateway._attempt_payment on the gateway's own monitor
AttemptPayment ==
    /\ AttemptPaymentOn(monitor)
    /\ monitor' = Delivered
    /\ UNCHANGED <<workers, registry>>

\* mutant: retry_payment without the check for a successful transaction
RetryPayment_NoSuccessCheck(id) ==
    /\ pc = "idle"
    /\ UNCHANGED <<workers, monitor, registry>>
    /\ id <= Len(transactions)
    /\ WithinBudget(transactions)
    /\ transactions' = [transactions EXCEPT ![id].status = "retrying"]
    /\ pc' = "attempting"
    /\ cur' = [op |-> "retry_payment", tx |-> id, attempt |-> 0]
    /\ UNCHANGED <<providers, circuit_breakers, routing_strategy, round_robin_counter,
                   now, events, response>>

\* PaymentGateway.retry_payment up to the call of _attempt_payment
RetryPayment(id) ==
    /\ pc = "idle"
    /\ UNCHANGED <<workers, monitor, registry>>
    /\ IF id > Len(transactions)
       THEN /\ response' = Raised("retry_payment", "TransactionNotFoundError")
            /\ UNCHANGED <<providers, circuit_breakers, transactions, routing_strategy,
                           round_robin_counter, now, events, pc, cur>>
       ELSE IF transactions[id].status = "success"
       THEN /\ response' = Returned("retry_payment", FALSE,
                                    "Transaction already successful", NoTransaction)
            /\ UNCHANGED <<providers, circuit_breakers, transactions, routing_strategy,
                           round_robin_counter, now, events, pc, cur>>
       ELSE /\ WithinBudget(transactions)
            /\ LET sel == _select_optimal_provider(routing_strategy, NoTransaction,
                              ProviderOrder, providers, circuit_breakers,
                              round_robin_counter)
               IN /\ transactions' = [transactions EXCEPT
                                        ![id].status = "retrying",
                                        ![id].provider = sel.provider]
                  /\ round_robin_counter' = sel.counter
            /\ pc' = "attempting"
            /\ cur' = [op |-> "retry_payment", tx |-> id, attempt |-> 0]
            /\ UNCHANGED <<providers, circuit_breakers, routing_strategy, now, events,
                           response>>

\* PaymentGateway.get_transaction_status
GetTransactionStatus(id) ==
    /\ pc = "idle"
    /\ UNCHANGED <<workers, monitor, registry>>
    /\ response' = IF id > Len(transactions)
                   THEN Raised("get_transaction_status", "TransactionNotFoundError")
                   ELSE Returned("get_transaction_status", TRUE, "", transactions[id])
    /\ UNCHANGED <<providers, circuit_breakers, transactions, routing_strategy,
                   round_robin_counter, now, events, pc, cur>>

\* PaymentGateway.set_routing_strategy; the model configures the strategy
\* before the first payment
SetRoutingStrategy(strategy) ==
    /\ UNCHANGED <<workers, monitor, registry>>
    /\ pc = "idle"
    /\ transactions = <<>>
    /\ routing_strategy # strategy
    /\ routing_strategy' = strategy
    /\ UNCHANGED <<providers, circuit_breakers, transactions, round_robin_counter, now,
                   events, pc, cur, response>>

Next ==
    \/ \E input \in TxInputs, preferred \in PreferredInputs : ProcessPayment(input, preferred)
    \/ AttemptPayment
    \/ \E id \in 1..(Len(transactions) + 1) : RetryPayment(id)
    \/ \E id \in 1..(Len(transactions) + 1) : GetTransactionStatus(id)
    \/ \E strategy \in Strategies : SetRoutingStrategy(strategy)

Spec == Init /\ [][Next]_vars

\* _attempt_payment runs on the caller's thread: a call in progress always
\* takes its next step
FairSpec == Spec /\ WF_vars(AttemptPayment)

----------------------------------------------------------------------------
(* One circuit breaker exercised on its own: calls of the guarded provider *)
(* through it, the administrative overrides, and time passing.            *)

BreakerInputs == {"stripe"}

\* the payment every call through the breaker carries
BreakerTxInput ==
    [amount |-> 10000, currency |-> "USD", method |-> "card", network |-> "visa",
     region |-> "north_america"]

\* circuit_breaker.call(provider.process_payment, transaction)
BreakerCall(p) ==
    LET tx == [NewTransaction(0, BreakerTxInput) EXCEPT !.provider = p]
        chk == call_check(circuit_breakers[p], now)
    IN IF ~chk.admitted
       THEN /\ circuit_breakers' = [circuit_breakers EXCEPT ![p] = chk.cb]
            /\ response' = Raised("call", "CircuitBreakerError")
            /\ UNCHANGED providers
       ELSE /\ providers[p].request_count < MaxBreakerCalls
            /\ \E o \in process_payment_outcomes(p, providers[p], tx, now) :
                 /\ providers' = [providers EXCEPT ![p] = o.pr]
                 /\ circuit_breakers' =
                      [circuit_breakers EXCEPT
                         ![p] = IF o.ok THEN _on_success(chk.cb)
                                ELSE _on_failure(chk.cb, now)]
                 /\ response' = IF o.ok THEN Returned("call", TRUE, "", NoTransaction)
                                ELSE Raised("call", "ProviderError")

BreakerCallStep(p) ==
    /\ UNCHANGED <<workers, monitor, registry>>
    /\ BreakerCall(p)
    /\ UNCHANGED <<transactions, routing_strategy, round_robin_counter, now, events,
                   pc, cur>>

\* circuit_breaker.force_open()
ForceOpen(p) ==
    /\ UNCHANGED <<workers, monitor, registry>>
    /\ circuit_breakers' = [circuit_breakers EXCEPT ![p] = force_open(@, now)]
    /\ response' = NoResponse
    /\ UNCHANGED <<providers, transactions, routing_strategy, round_robin_counter, now,
                   events, pc, cur>>

\* circuit_breaker.force_close()
ForceClose(p) ==
    /\ UNCHANGED <<workers, monitor, registry>>
    /\ circuit_breakers' = [circuit_breakers EXCEPT ![p] = force_close(@)]
    /\ response' = NoResponse
    /\ UNCHANGED <<providers, transactions, routing_strategy, round_robin_counter, now,
                   events, pc, cur>>

\* time passing between calls
Tick ==
    /\ UNCHANGED <<workers, monitor, registry>>
    /\ now + TickSeconds <= MaxNow
    /\ now' = now + TickSeconds
    /\ UNCHANGED <<providers, circuit_breakers, transactions, routing_strategy,
                   round_robin_counter, events, pc, cur, response>>

BreakerNext ==
    \/ \E p \in BreakerInputs : BreakerCallStep(p)
    \/ \E p \in BreakerInputs : ForceOpen(p)
    \/ \E p \in BreakerInputs : ForceClose(p)
    \/ Tick

BreakerSpec == Init /\ [][BreakerNext]_vars

----------------------------------------------------------------------------
(* Worker threads calling circuit_breaker.call(provider.process_payment, tx)  *)
(* on one provider without a lock.  A thread can be preempted between the     *)
(* breaker's state check and func, between the load and the store of          *)
(* "self.request_count += 1", and it yields in time.sleep(latency).           *)

InFlight(w) == workers[w].pc # "idle"

\* CircuitBreaker.call up to func, then the load of self.request_count; the
\* threads are interchangeable, so they start their calls in index order
WorkerEnter(w, p) ==
    /\ workers[w].pc = "idle"
    /\ UNCHANGED <<monitor, registry>>
    /\ workers[w].calls < MaxCallsPerWorker
    /\ \A v \in Workers : v < w => workers[v].calls >= workers[w].calls + 1
    /\ LET chk == call_check(circuit_breakers[p], now) IN
       /\ circuit_breakers' = [circuit_breakers EXCEPT ![p] = chk.cb]
       /\ IF chk.admitted
          THEN /\ workers' = [workers EXCEPT
                    ![w] = [pc |-> "counting", read |-> providers[p].request_count,
                            episode |-> IF chk.cb.state = "HALF_OPEN"
                                        THEN chk.cb.last_failure_time ELSE NoTime,
                            calls |-> @.calls + 1]]
               /\ UNCHANGED response
          ELSE /\ workers' = [workers EXCEPT ![w].calls = @ + 1]
               /\ response' = Raised("call", "CircuitBreakerError")
    /\ UNCHANGED <<providers, transactions, routing_strategy, round_robin_counter, now,
                   events, pc, cur>>

\* the store of self.request_count and process_payment up to time.sleep; an
\* early ProviderError goes through _on_failure at once
WorkerCount(w, p) ==
    /\ workers[w].pc = "counting"
    /\ UNCHANGED <<monitor, registry>>
    /\ LET tx == [NewTransaction(0, BreakerTxInput) EXCEPT !.provider = p]
           counted == [providers[p] EXCEPT !.request_count = workers[w].read + 1]
           rl == _is_rate_limited(counted, now)
       IN IF ~can_process_transaction(p, tx)
          THEN /\ providers' = [providers EXCEPT ![p] = counted]
               /\ circuit_breakers' =
                    [circuit_breakers EXCEPT ![p] = _on_failure(@, now)]
               /\ workers' = [workers EXCEPT ![w] = [IdleWorker EXCEPT !.calls = workers[w].calls]]
               /\ response' = Raised("call", "ProviderError")
          ELSE IF rl.limited \/ rl.pr.is_maintenance
          THEN /\ providers' = [providers EXCEPT ![p] = rl.pr]
               /\ circuit_breakers' =
                    [circuit_breakers EXCEPT ![p] = _on_failure(@, now)]
               /\ workers' = [workers EXCEPT ![w] = [IdleWorker EXCEPT !.calls = workers[w].calls]]
               /\ response' = Raised("call", "ProviderError")
          ELSE /\ providers' = [providers EXCEPT ![p] = rl.pr]
               /\ workers' = [workers EXCEPT ![w].pc = "sleeping", ![w].read = 0]
               /\ UNCHANGED <<circuit_breakers, response>>
    /\ UNCHANGED <<transactions, routing_strategy, round_robin_counter, now, events,
                   pc, cur>>

\* process_payment after time.sleep, then _on_success or _on_failure
WorkerFinish(w, p) ==
    /\ workers[w].pc = "sleeping"
    /\ UNCHANGED <<monitor, registry>>
    /\ LET tx == [NewTransaction(0, BreakerTxInput) EXCEPT !.provider = p] IN
       \E ok \in BOOLEAN, v \in LatencyVariation :
         LET ms == _calculate_processing_latency(p, tx, v)
             timed == [providers[p] EXCEPT !.total_processing_time = @ + ms]
         IN /\ providers' =
                 [providers EXCEPT
                    ![p] = IF ok THEN timed
                           ELSE [timed EXCEPT !.failure_count = @ + 1]]
            /\ circuit_breakers' =
                 [circuit_breakers EXCEPT
                    ![p] = IF ok THEN _on_success(@) ELSE _on_failure(@, now)]
            /\ response' = IF ok THEN Returned("call", TRUE, "", NoTransaction)
                           ELSE Raised("call", "ProviderError")
    /\ workers' = [workers EXCEPT ![w] = [IdleWorker EXCEPT !.calls = workers[w].calls]]
    /\ UNCHANGED <<transactions, routing_strategy, round_robin_counter, now, events,
                   pc, cur>>

WorkersNext ==
    \/ \E w \in Workers, p \in BreakerInputs : WorkerEnter(w, p)
    \/ \E w \in Workers, p \in BreakerInputs : WorkerCount(w, p)
    \/ \E w \in Workers, p \in BreakerInputs : WorkerFinish(w, p)
    \/ \E p \in BreakerInputs : ForceOpen(p)
    \/ Tick

WorkersSpec == Init /\ [][WorkersNext]_vars

----------------------------------------------------------------------------
(* The gateway during an outage: breakers are forced open with                *)
(* circuit_breakers[p].force_open(), then one payment is processed.           *)

OutageNext ==
    \/ \E input \in TxInputs, preferred \in PreferredInputs :
         transactions = <<>> /\ ProcessPayment(input, preferred)
    \/ AttemptPayment
    \/ \E strategy \in Strategies : SetRoutingStrategy(strategy)
    \/ \E p \in ProviderNames :
         /\ transactions = <<>> /\ pc = "idle"
         /\ circuit_breakers[p].state # "OPEN"
         /\ ForceOpen(p)

OutageSpec == Init /\ [][OutageNext]_vars

----------------------------------------------------------------------------
(* The gateway across an outage and the recovery from it: breakers are       *)
(* forced open, one payment is processed, the breakers are closed again with *)
(* circuit_breakers[p].force_close(), and the payment is retried.            *)

RecoveryNext ==
    \/ \E input \in TxInputs, preferred \in PreferredInputs :
         transactions = <<>> /\ ProcessPayment(input, preferred)
    \/ AttemptPayment
    \/ \E id \in 1..Len(transactions) : RetryPayment(id)
    \/ \E strategy \in Strategies : SetRoutingStrategy(strategy)
    \/ \E p \in ProviderNames :
         /\ transactions = <<>> /\ pc = "idle"
         /\ circuit_breakers[p].state # "OPEN"
         /\ ForceOpen(p)
    \/ \E p \in ProviderNames :
         /\ transactions # <<>> /\ pc = "idle"
         /\ circuit_breakers[p].state = "OPEN"
         /\ ForceClose(p)

RecoverySpec == Init /\ [][RecoveryNext]_vars

----------------------------------------------------------------------------
(* The same outage and recovery for payments that few providers can take: a *)
(* diners card, which only adyen's capabilities list, and the discover card *)
(* of TxInputs, which stripe and adyen list.                                *)

NarrowInputs ==
    { [amount |-> 10000, currency |-> "USD", method |-> "card", network |-> "diners",
       region |-> "north_america"],
      [amount |-> 10000, currency |-> "GBP", method |-> "card", network |-> "discover",
       region |-> "europe"] }

NarrowNext ==
    \/ \E input \in NarrowInputs, preferred \in PreferredInputs :
         transactions = <<>> /\ ProcessPayment(input, preferred)
    \/ AttemptPayment
    \/ \E id \in 1..Len(transactions) : RetryPayment(id)
    \/ \E strategy \in Strategies : SetRoutingStrategy(strategy)
    \/ \E p \in ProviderNames :
         /\ transactions = <<>> /\ pc = "idle"
         /\ circuit_breakers[p].state # "OPEN"
         /\ ForceOpen(p)
    \/ \E p \in ProviderNames :
         /\ transactions # <<>> /\ pc = "idle"
         /\ circuit_breakers[p].state = "OPEN"
         /\ ForceClose(p)

NarrowSpec == Init /\ [][NarrowNext]_vars

----------------------------------------------------------------------------
(* The gateway with observers: callables are registered with                 *)
(* monitor.add_observer, then one payment is processed.                      *)

\* PaymentMonitor.add_observer
AddObserver(kind) ==
    /\ pc = "idle"
    /\ transactions = <<>>
    /\ Len(monitor.observers) < MaxObservers
    /\ monitor' = [monitor EXCEPT !.observers = Append(@, NewObserver(kind))]
    /\ UNCHANGED <<providers, circuit_breakers, transactions, routing_strategy,
                   round_robin_counter, now, events, pc, cur, response, workers, registry>>

ObserverNext ==
    \/ \E kind \in ObserverKinds : AddObserver(kind)
    \/ \E input \in TxInputs, preferred \in PreferredInputs :
         transactions = <<>> /\ ProcessPayment(input, preferred)
    \/ AttemptPayment

ObserverSpec == Init /\ [][ObserverNext]_vars

----------------------------------------------------------------------------
(* The gateway under administration: configure_provider and                  *)
(* simulate_scenario around one payment.                                     *)

\* the keyword arguments the model passes to configure_provider
ConfigInputs ==
    { [key |-> "is_maintenance", value |-> 1],
      [key |-> "rate_limit_threshold", value |-> 1] }

\* the provider names the model passes to configure_provider
ConfigNames == {"stripe", "paypal", "bogus"}

\* the scenario names the model passes to simulate_scenario
ScenarioInputs ==
    {"stripe_maintenance", "adyen_high_latency", "paypal_low_success",
     "razorpay_rate_limit", "mass_failure", "circuit_breaker_test", "reset_all",
     "bogus"}

\* PaymentGateway.configure_provider: the exception it raises and the
\* providers afterwards.  No provider class defines configure, so the call
\* self.providers[provider_name].configure(**config) raises AttributeError.
configure_provider(prs, name, config) ==
    IF name \notin ProviderNames
    THEN [raised |-> "InvalidProviderError", providers |-> prs]
    ELSE [raised |-> "AttributeError", providers |-> prs]

\* PaymentGateway._reset_all_providers: configure_provider for every provider
\* in registry order, then force_close on every breaker; an exception ends it
\* where it is raised
_reset_all_providers(prs, cbs) ==
    LET c == configure_provider(prs, ProviderOrder[1],
                                [key |-> "is_maintenance", value |-> 0])
    IN IF c.raised # ""
       THEN [raised |-> c.raised, providers |-> c.providers, circuit_breakers |-> cbs]
       ELSE [raised |-> "", providers |-> c.providers,
             circuit_breakers |-> [p \in ProviderNames |-> force_close(cbs[p])]]

\* the outcome of the callable simulate_scenario looks up for name
scenario(name, prs, cbs, t) ==
    CASE name = "stripe_maintenance" ->
           LET c == configure_provider(prs, "stripe", [key |-> "is_maintenance", value |-> 1])
           IN [raised |-> c.raised, providers |-> c.providers, circuit_breakers |-> cbs]
      [] name = "adyen_high_latency" ->
           LET c == configure_provider(prs, "adyen", [key |-> "avg_latency", value |-> 2000])
           IN [raised |-> c.raised, providers |-> c.providers, circuit_breakers |-> cbs]
      [] name = "paypal_low_success" ->
           LET c == configure_provider(prs, "paypal", [key |-> "success_rate", value |-> 30])
           IN [raised |-> c.raised, providers |-> c.providers, circuit_breakers |-> cbs]
      [] name = "razorpay_rate_limit" ->
           LET c == configure_provider(prs, "razorpay",
                                       [key |-> "rate_limit_threshold", value |-> 1])
           IN [raised |-> c.raised, providers |-> c.providers, circuit_breakers |-> cbs]
      [] name = "mass_failure" ->
           LET c == configure_provider(prs, ProviderOrder[1],
                                       [key |-> "success_rate", value |-> 10])
           IN [raised |-> c.raised, providers |-> c.providers, circuit_breakers |-> cbs]
      [] name = "circuit_breaker_test" ->
           [raised |-> "", providers |-> prs,
            circuit_breakers |-> [cbs EXCEPT !["stripe"] = force_open(@, t)]]
      [] OTHER -> _reset_all_providers(prs, cbs)

\* PaymentGateway.configure_provider as a call of the operator
ConfigureProvider(name, config) ==
    /\ pc = "idle"
    /\ LET c == configure_provider(providers, name, config)
       IN /\ providers' = c.providers
          /\ response' = IF c.raised = ""
                         THEN Returned("configure_provider", TRUE, "", NoTransaction)
                         ELSE Raised("configure_provider", c.raised)
    /\ UNCHANGED <<circuit_breakers, transactions, routing_strategy, round_robin_counter,
                   now, events, pc, cur, workers, monitor, registry>>

\* PaymentGateway.simulate_scenario
SimulateScenario(name) ==
    /\ pc = "idle"
    /\ IF name \notin ScenarioInputs \ {"bogus"}
       THEN /\ response' = Returned("simulate_scenario", FALSE, "Unknown scenario",
                                    NoTransaction)
            /\ UNCHANGED <<providers, circuit_breakers>>
       ELSE LET r == scenario(name, providers, circuit_breakers, now)
            IN /\ providers' = r.providers
               /\ circuit_breakers' = r.circuit_breakers
               /\ response' =
                    IF r.raised = ""
                    THEN Returned("simulate_scenario", TRUE, "", NoTransaction)
                    ELSE Returned("simulate_scenario", FALSE,
                                  "Failed to activate scenario", NoTransaction)
    /\ UNCHANGED <<transactions, routing_strategy, round_robin_counter, now, events,
                   pc, cur, workers, monitor, registry>>

AdminNext ==
    \/ \E name \in ConfigNames, config \in ConfigInputs : ConfigureProvider(name, config)
    \/ \E name \in ScenarioInputs : SimulateScenario(name)
    \/ \E input \in TxInputs, preferred \in PreferredInputs :
         transactions = <<>> /\ ProcessPayment(input, preferred)
    \/ AttemptPayment

AdminSpec == Init /\ [][AdminNext]_vars

----------------------------------------------------------------------------
(* The gateway long after an outage: breakers are forced open, time passes   *)
(* beyond timeout_seconds, and a payment without a preferred provider is     *)
(* processed and retried.  The outage is at the start of the run.            *)

StaleNext ==
    \/ \E input \in TxInputs :
         transactions = <<>> /\ ProcessPayment(input, NoProvider)
    \/ AttemptPayment
    \/ \E id \in 1..Len(transactions) : RetryPayment(id)
    \/ \E strategy \in Strategies : SetRoutingStrategy(strategy)
    \/ \E p \in ProviderNames :
         /\ transactions = <<>> /\ pc = "idle" /\ now = 0
         /\ circuit_breakers[p].state # "OPEN"
         /\ ForceOpen(p)
    \/ \E p \in ProviderNames :
         /\ transactions # <<>> /\ pc = "idle"
         /\ circuit_breakers[p].state = "OPEN"
         /\ ForceClose(p)
    \/ (pc = "idle" /\ Tick)

StaleSpec == Init /\ [][StaleNext]_vars

----------------------------------------------------------------------------
(* Payments running on several threads of one gateway, without a lock: each  *)
(* thread runs the loop of _attempt_payment for its own transaction.  A      *)
(* thread can be preempted between the statements of _switch_provider, so    *)
(* the assignment of the reduced registry, the selection and the restoring   *)
(* assignment are separate steps.  The sleeps do not move the shared clock.  *)

\* transaction.provider when the loop starts: the preferred provider of the
\* request
ThreadProviders == {"stripe", "adyen"}

Thread(w) == registry.threads[w]

\* process_payment up to the call of _attempt_payment, on thread w, for a
\* preferred provider that passes "preferred_provider not in self.providers";
\* the threads are interchangeable, so they start in index order
ThreadStart(w, p) ==
    /\ Thread(w).pc = "idle"
    /\ w <= MaxThreads
    /\ p \in SeqToSet(registry.names)
    /\ \A v \in Workers : v < w => Thread(v).pc # "idle"
    /\ registry' = [registry EXCEPT
                      !.threads[w] = [IdleThread EXCEPT !.pc = "attempting",
                                                        !.provider = p]]
    /\ UNCHANGED <<providers, circuit_breakers, transactions, routing_strategy,
                   round_robin_counter, now, events, pc, cur, response, workers,
                   monitor>>

\* where the loop goes after a failed or erroneous attempt
AfterAttempt(th, failed) ==
    IF ~failed THEN [th EXCEPT !.pc = "done"]
    ELSE IF th.attempt < max_attempts - 1 THEN [th EXCEPT !.pc = "switching"]
    ELSE [th EXCEPT !.pc = "done"]

\* one attempt of the loop on thread w: the lookup
\* self.providers[transaction.provider], whose KeyError is caught by
\* "except Exception" and recorded as a Route with status 'error', then the
\* call through the breaker
ThreadAttempt(w) ==
    LET th == Thread(w)
        p == th.provider
        tx == [NewTransaction(0, BreakerTxInput) EXCEPT !.provider = p]
    IN /\ th.pc = "attempting"
       /\ IF p \notin SeqToSet(registry.names)
          THEN /\ registry' = [registry EXCEPT
                                 !.threads[w] =
                                    AfterAttempt([th EXCEPT !.errors = @ + 1], TRUE)]
               /\ UNCHANGED <<providers, circuit_breakers>>
          ELSE LET chk == call_check(circuit_breakers[p], now) IN
               IF ~chk.admitted
               THEN /\ circuit_breakers' = [circuit_breakers EXCEPT ![p] = chk.cb]
                    /\ registry' = [registry EXCEPT
                                      !.threads[w] = AfterAttempt(th, TRUE)]
                    /\ UNCHANGED providers
               ELSE \E o \in process_payment_outcomes(p, providers[p], tx, now) :
                      /\ providers' = [providers EXCEPT ![p] = o.pr]
                      /\ circuit_breakers' =
                           [circuit_breakers EXCEPT
                              ![p] = IF o.ok THEN _on_success(chk.cb)
                                     ELSE _on_failure(chk.cb, now)]
                      /\ registry' = [registry EXCEPT
                                        !.threads[w] = AfterAttempt(th, ~o.ok)]
       /\ UNCHANGED <<transactions, routing_strategy, round_robin_counter, now, events,
                      pc, cur, response, workers, monitor>>

\* _switch_provider up to "self.providers = temp_providers"
ThreadSwitchEnter(w) ==
    LET th == Thread(w)
        NotCurrent(p) == p # th.provider
        temp_providers == SelectSeq(registry.names, NotCurrent)
    IN /\ th.pc = "switching"
       /\ registry' =
            IF temp_providers = <<>>
            THEN [registry EXCEPT !.threads[w].pc = "attempting",
                                  !.threads[w].attempt = @ + 1]
            ELSE [registry EXCEPT !.names = temp_providers,
                                  !.threads[w].pc = "selecting",
                                  !.threads[w].original_providers = registry.names]
       /\ UNCHANGED <<providers, circuit_breakers, transactions, routing_strategy,
                      round_robin_counter, now, events, pc, cur, response, workers,
                      monitor>>

\* the rest of _switch_provider: the selection among self.providers as it is
\* now, and "self.providers = original_providers"
ThreadSwitchExit(w) ==
    LET th == Thread(w)
        tx == [NewTransaction(0, BreakerTxInput) EXCEPT !.provider = "temp"]
        sel == _select_optimal_provider(routing_strategy, tx, registry.names, providers,
                                        circuit_breakers, round_robin_counter)
    IN /\ th.pc = "selecting"
       /\ registry' = [registry EXCEPT
                         !.names = th.original_providers,
                         !.threads[w] = [th EXCEPT !.pc = "attempting",
                                                   !.provider = sel.provider,
                                                   !.attempt = @ + 1,
                                                   !.original_providers = <<>>]]
       /\ round_robin_counter' = sel.counter
       /\ UNCHANGED <<providers, circuit_breakers, transactions, routing_strategy, now,
                      events, pc, cur, response, workers, monitor>>

ThreadsNext ==
    \/ \E w \in Workers, p \in ThreadProviders : ThreadStart(w, p)
    \/ \E w \in Workers : ThreadAttempt(w)
    \/ \E w \in Workers : ThreadSwitchEnter(w)
    \/ \E w \in Workers : ThreadSwitchExit(w)

ThreadsSpec == Init /\ [][ThreadsNext]_vars

----------------------------------------------------------------------------
(* One provider around its rate limit: provider.process_payment(tx) called  *)
(* directly, on a provider that has already admitted nearly                 *)
(* rate_limit_threshold calls in a window that is still open.               *)

RateProviders == {"stripe"}

\* the end of the window that is open at the start
RateWindowEnd == 2 * TickSeconds

\* a provider after k successful payments of BreakerTxInput in the window
\* that ends at RateWindowEnd; is_maintenance is a public attribute the
\* caller may have set
UsedProvider(p, k, maintenance) ==
    [request_count |-> k, failure_count |-> 0,
     total_processing_time |->
         k * _calculate_processing_latency(p, BreakerTxInput, 100),
     is_maintenance |-> maintenance, rate_limit_counter |-> k,
     rate_limit_reset_time |-> RateWindowEnd]

RateInit ==
    /\ \E k \in {rate_limit_threshold - MaxRateCalls, rate_limit_threshold - 1},
          maintenance \in BOOLEAN :
         providers = [p \in ProviderNames |->
                        IF p \in RateProviders THEN UsedProvider(p, k, maintenance)
                        ELSE NewProvider]
    /\ circuit_breakers = [p \in ProviderNames |-> NewBreaker]
    /\ transactions = <<>>
    /\ routing_strategy = "health_based"
    /\ round_robin_counter = 0
    /\ now = 0
    /\ events = <<>>
    /\ pc = "idle"
    /\ cur = Idle
    /\ response = NoResponse
    /\ workers = [w \in Workers |-> IdleWorker]
    /\ monitor = NewMonitor
    /\ registry = NewRegistry

\* provider.process_payment(transaction): one of its outcomes
ProviderCall(p, input) ==
    /\ pc = "idle"
    /\ providers[p].request_count < rate_limit_threshold + MaxRateCalls
    /\ LET tx == [NewTransaction(0, input) EXCEPT !.provider = p] IN
       \E out \in process_payment_outcomes(p, providers[p], tx, now) :
         /\ providers' = [providers EXCEPT ![p] = out.pr]
         /\ response' = IF out.ok
                        THEN Returned("provider.process_payment", TRUE, "", NoTransaction)
                        ELSE Raised("provider.process_payment", out.code)
    /\ UNCHANGED <<circuit_breakers, transactions, routing_strategy, round_robin_counter,
                   now, events, pc, cur, workers, monitor, registry>>

RateNext ==
    \/ \E p \in RateProviders, input \in TxInputs : ProviderCall(p, input)
    \/ Tick

RateSpec == RateInit /\ [][RateNext]_vars

----------------------------------------------------------------------------
(* The same provider behind its circuit breaker:                             *)
(* circuit_breaker.call(provider.process_payment, tx) with payments the      *)
(* provider supports and one it does not, around the rate limit and in       *)
(* maintenance.                                                              *)

\* the payments of TxInputs and a diners card, which stripe does not list
GuardedInputs ==
    TxInputs \cup
    { [amount |-> 10000, currency |-> "USD", method |-> "card", network |-> "diners",
       region |-> "north_america"] }

\* mutant: only a failure of the simulated processing reaches _on_failure
call_on_exception_ProcessingOnly(cb, code, t) ==
    IF code \in {"UNSUPPORTED_TRANSACTION", "RATE_LIMITED", "PROVIDER_MAINTENANCE"}
    THEN cb
    ELSE _on_failure(cb, t)

\* CircuitBreaker.call, "except Exception as e: self._on_failure()": the
\* breaker after func raised the error with this code
call_on_exception(cb, code, t) == _on_failure(cb, t)

\* circuit_breaker.call(provider.process_payment, transaction); the response
\* carries the error code of the exception
GuardedCall(p, input) ==
    LET tx == [NewTransaction(0, input) EXCEPT !.provider = p]
        chk == call_check(circuit_breakers[p], now)
    IN /\ pc = "idle"
       /\ providers[p].request_count
            < rate_limit_threshold + failure_threshold + MaxRateCalls
       /\ IF ~chk.admitted
          THEN /\ circuit_breakers' = [circuit_breakers EXCEPT ![p] = chk.cb]
               /\ response' = Raised("call", "CircuitBreakerError")
               /\ UNCHANGED providers
          ELSE \E o \in process_payment_outcomes(p, providers[p], tx, now) :
                 /\ providers' = [providers EXCEPT ![p] = o.pr]
                 /\ circuit_breakers' =
                      [circuit_breakers EXCEPT
                         ![p] = IF o.ok THEN _on_success(chk.cb)
                                ELSE call_on_exception(chk.cb, o.code, now)]
                 /\ response' = IF o.ok THEN Returned("call", TRUE, "", NoTransaction)
                                ELSE Raised("call", o.code)
       /\ UNCHANGED <<transactions, routing_strategy, round_robin_counter, now, events,
                      pc, cur, workers, monitor, registry>>

GuardedNext ==
    \/ \E p \in RateProviders, input \in GuardedInputs : GuardedCall(p, input)
    \/ Tick

GuardedSpec == RateInit /\ [][GuardedNext]_vars

----------------------------------------------------------------------------
(* The gateway on payments whose amount no provider accepts.                  *)

\* amounts below every min_amount (0.00) and above every max_amount
\* (1,000,000.01), in cents
OutOfRangeInputs ==
    { [amount |-> 0, currency |-> "USD", method |-> "card", network |-> "visa",
       region |-> "north_america"],
      [amount |-> 100000001, currency |-> "USD", method |-> "card", network |-> "visa",
       region |-> "north_america"] }

OutOfRangeNext ==
    \/ \E input \in OutOfRangeInputs, preferred \in PreferredInputs :
         ProcessPayment(input, preferred)
    \/ AttemptPayment
    \/ \E strategy \in Strategies : SetRoutingStrategy(strategy)

OutOfRangeSpec == Init /\ [][OutOfRangeNext]_vars

----------------------------------------------------------------------------
(* Claims *)

TxIds == 1..Len(transactions)

\* the transaction views an observer can hold: those carried by emitted
\* events, by the last response, and those get_transaction_status returns
ObservedTransactions ==
    {events[k].transaction : k \in 1..Len(events)}
      \cup (IF response.transaction # NoTransaction THEN {response.transaction} ELSE {})
      \cup (IF pc = "idle" THEN {transactions[id] : id \in TxIds} ELSE {})

LastRoute(t) == t.route_history[Len(t.route_history)]

\* C1: at every observable moment a transaction's attempts equals the length
\* of its route history and the i-th Route carries attempt_number i
C1_AttemptsMatchRoutes ==
    \A t \in ObservedTransactions :
      /\ t.attempts = Len(t.route_history)
      /\ \A i \in 1..Len(t.route_history) : t.route_history[i].attempt_number = i

\* C2: at every observable moment, and between the attempts of a call, a
\* transaction's status is success exactly when its route history is
\* non-empty and ends with a success Route
C2_SuccessIffLastRouteSuccess ==
    \A t \in ObservedTransactions \cup {transactions[id] : id \in TxIds} :
      (t.status = "success")
        <=> (t.route_history # <<>> /\ LastRoute(t).status = "success")

C2_Witness ==
    /\ pc = "idle"
    /\ \E id \in TxIds :
         /\ transactions[id].status = "success"
         /\ Len(transactions[id].route_history) >= 2
    /\ \E id \in TxIds : transactions[id].status = "failed"

ErrorCode ==
    {"TIMEOUT", "CONNECTION_REFUSED", "SSL_HANDSHAKE_FAILED", "DNS_RESOLUTION_FAILED",
     "CARD_DECLINED", "INSUFFICIENT_FUNDS", "AUTHENTICATION_FAILED", "BLOCKED_CARD",
     "ACCOUNT_RESTRICTED", "CURRENCY_NOT_SUPPORTED", "REGION_BLOCKED",
     "COMPLIANCE_VIOLATION", "NETWORK_UNAVAILABLE", "NETWORK_TIMEOUT",
     "ISSUER_UNAVAILABLE", "INVALID_CARD_NUMBER", "EXPIRED_CARD", "INVALID_CVV",
     "WALLET_INSUFFICIENT_BALANCE", "WALLET_SUSPENDED", "BANK_ACCOUNT_CLOSED",
     "BANK_TRANSFER_LIMIT_EXCEEDED", "RATE_LIMITED", "PROVIDER_MAINTENANCE",
     "FRAUD_DETECTED", "DUPLICATE_TRANSACTION", "UNSUPPORTED_TRANSACTION"}

\* C4: a failed Route whose ErrorKind is not in retry_on_errors (and is no
\* CircuitOpen rejection) is the last Route of its call: no attempt follows it
\* in that call and the call does not go on to another provider
C4_TerminalErrorEndsCall ==
    \A id \in TxIds :
      LET h == transactions[id].route_history IN
      \A i \in 1..Len(h) :
        (h[i].status = "failed" /\ h[i].reason \in ErrorCode \ retry_on_errors)
          => /\ (i < Len(h) => h[i + 1].attempt_number = 1)
             /\ (i = Len(h) => ~(pc = "attempting" /\ cur.tx = id /\ cur.attempt > 0))

\* what C5 says of the envelope process_payment returns
C5_Envelope ==
    (response.op = "process_payment" /\ response.kind = "returned")
      => LET t == response.transaction IN
         /\ 1 <= t.attempts /\ t.attempts <= max_attempts
         /\ t.status \in {"success", "failed"}
         /\ (response.success <=> t.status = "success")
         /\ (~response.success =>
               /\ response.error = "Payment failed after all retry attempts"
               /\ t.route_history # <<>>
               /\ \A i \in 1..Len(t.route_history) : t.route_history[i].status # "success")

\* C5: every process_payment call with a valid or absent preferred provider
\* ends, and the envelope it returns has 1 <= attempts <= max_attempts, a
\* status of success or failed that the success flag agrees with, and on
\* failure the fixed error text with a non-empty history without a success.
\* The call ends because it is never stuck and each of its steps either
\* returns or uses up one of at most max_attempts loop iterations.
C5_ProcessPaymentTerminates ==
    /\ []C5_Envelope
    /\ [](pc = "attempting" => (cur.attempt < max_attempts /\ ENABLED AttemptPayment))
    /\ [][pc = "attempting"
            => \/ pc' = "idle" /\ response'.op = cur.op /\ response'.kind = "returned"
               \/ pc' = "attempting" /\ cur' = [cur EXCEPT !.attempt = @ + 1]]_vars

C5_Witness ==
    /\ response.op = "process_payment"
    /\ response.kind = "returned"
    /\ ~response.success
    /\ response.transaction.attempts = max_attempts

\* C6: retry_payment on a successful transaction returns success=false with
\* the "already successful" error and changes nothing: not the transaction,
\* a breaker, a provider counter, the events or the call position
C6_RetryOfSuccessIsNoOp ==
    [][\A id \in TxIds :
         (transactions[id].status = "success" /\ RetryPayment(id))
           => /\ response'.op = "retry_payment"
              /\ response'.kind = "returned"
              /\ ~response'.success
              /\ response'.error = "Transaction already successful"
              /\ UNCHANGED <<transactions, providers, circuit_breakers, events,
                             round_robin_counter, routing_strategy, pc, cur>>]_vars

C6_Witness ==
    /\ response.op = "retry_payment"
    /\ response.error = "Transaction already successful"
    /\ \E id \in TxIds : transactions[id].status = "success"

\* C7: a retry sets the status to retrying, makes its first attempt on a
\* provider other than the one of the transaction's last Route, and makes at
\* most max_attempts attempts
C7_RetryAvoidsLastProvider ==
    /\ (pc = "attempting" /\ cur.op = "retry_payment")
         => /\ transactions[cur.tx].status = "retrying"
            /\ cur.attempt < max_attempts
    /\ \A id \in TxIds :
         LET h == transactions[id].route_history IN
         \A i \in 2..Len(h) :
           h[i].attempt_number = 1 => h[i].provider # h[i - 1].provider

\* C8: process_payment with an unregistered preferred provider raises
\* InvalidProvider, get_transaction_status and retry_payment with an unknown
\* id raise TransactionNotFound, and in each case nothing but the raised
\* error changes
C8_RejectedCallsChangeNothing ==
    [][/\ \A input \in TxInputs, preferred \in PreferredInputs \ (ProviderNames \cup {NoProvider}) :
            ProcessPayment(input, preferred)
              => /\ response' = Raised("process_payment", "InvalidProviderError")
                 /\ UNCHANGED <<transactions, providers, circuit_breakers, events,
                                round_robin_counter, routing_strategy, pc, cur>>
       /\ \A id \in {Len(transactions) + 1} :
            /\ RetryPayment(id)
                 => /\ response' = Raised("retry_payment", "TransactionNotFoundError")
                    /\ UNCHANGED <<transactions, providers, circuit_breakers, events,
                                   round_robin_counter, routing_strategy, pc, cur>>
            /\ GetTransactionStatus(id)
                 => /\ response' = Raised("get_transaction_status",
                                          "TransactionNotFoundError")
                    /\ UNCHANGED <<transactions, providers, circuit_breakers, events,
                                   round_robin_counter, routing_strategy, pc, cur>>]_vars

C8_Witness ==
    /\ response = Raised("process_payment", "InvalidProviderError")
    /\ Len(transactions) = 1
    /\ events # <<>>

\* a call through p's breaker that reached the provider and failed
FailedCall(p) == BreakerCallStep(p) /\ response'.error = "ProviderError"

C10_OpenShortCircuits ==
    /\ [](\A p \in ProviderNames :
            circuit_breakers[p].state = "OPEN"
              => circuit_breakers[p].last_failure_time # NoTime)
    /\ [][\A p \in BreakerInputs :
            (/\ circuit_breakers[p].state = "OPEN"
             /\ now - circuit_breakers[p].last_failure_time < timeout_seconds
             /\ BreakerCallStep(p))
              => /\ response' = Raised("call", "CircuitBreakerError")
                 /\ UNCHANGED <<circuit_breakers, providers>>]_vars

C10_Witness ==
    \E p \in BreakerInputs :
      /\ circuit_breakers[p].state = "OPEN"
      /\ circuit_breakers[p].last_failure_time # NoTime
      /\ now > circuit_breakers[p].last_failure_time
      /\ now - circuit_breakers[p].last_failure_time < timeout_seconds
      /\ response = Raised("call", "CircuitBreakerError")

\* C11: a call on an OPEN breaker whose timeout has elapsed is passed on to
\* the provider, through a breaker that is HALF_OPEN with half_open_calls
\* reset to 0: a success leaves it HALF_OPEN with half_open_calls = 1, a
\* failure sends it back to OPEN with half_open_calls = 0
C11_ElapsedOpenIsProbed ==
    [][\A p \in BreakerInputs :
         LET cb == circuit_breakers[p]
             after == circuit_breakers'[p]
         IN (/\ cb.state = "OPEN"
             /\ now - cb.last_failure_time >= timeout_seconds
             /\ BreakerCallStep(p))
              => /\ response' # Raised("call", "CircuitBreakerError")
                 /\ providers'[p].request_count = providers[p].request_count + 1
                 /\ (response'.kind = "returned"
                       => after.state = "HALF_OPEN" /\ after.half_open_calls = 1)
                 /\ (response'.kind = "raised"
                       => /\ after.state = "OPEN"
                          /\ after.half_open_calls = 0
                          /\ after.last_failure_time = now')]_vars

\* a second probe: the breaker was half open before with a success counted,
\* fell back to OPEN, and the call after the next timeout succeeded
C11_Witness ==
    \E p \in BreakerInputs :
      /\ circuit_breakers[p].state = "HALF_OPEN"
      /\ circuit_breakers[p].half_open_calls = 1
      /\ circuit_breakers[p].last_failure_time >= timeout_seconds
      /\ now - circuit_breakers[p].last_failure_time >= timeout_seconds
      /\ response = Returned("call", TRUE, "", NoTransaction)

\* C12: in HALF_OPEN a successful call adds one to half_open_calls; the
\* success that brings it to half_open_max_calls closes the breaker with
\* failure_count and half_open_calls both 0; a failed call opens the breaker
C12_HalfOpenOutcomes ==
    [][\A p \in BreakerInputs :
         LET cb == circuit_breakers[p]
             after == circuit_breakers'[p]
         IN (cb.state = "HALF_OPEN" /\ BreakerCallStep(p))
              => /\ (response'.kind = "returned" /\ cb.half_open_calls + 1 < half_open_max_calls)
                      => /\ after.state = "HALF_OPEN"
                         /\ after.half_open_calls = cb.half_open_calls + 1
                 /\ (response'.kind = "returned" /\ cb.half_open_calls + 1 = half_open_max_calls)
                      => /\ after.state = "CLOSED"
                         /\ after.failure_count = 0
                         /\ after.half_open_calls = 0
                 /\ response'.error = "ProviderError" => after.state = "OPEN"]_vars

\* C13: during one HALF_OPEN episode the calls admitted to the provider, in
\* flight or finished, are at most half_open_max_calls
C13_HalfOpenAdmitsAtMostCap ==
    \A p \in BreakerInputs :
      LET cb == circuit_breakers[p] IN
      cb.state = "HALF_OPEN"
        => Cardinality({w \in Workers :
                          InFlight(w) /\ workers[w].episode = cb.last_failure_time})
             + cb.half_open_calls <= half_open_max_calls

\* C18: with worker threads calling the same provider, in every reachable
\* state request_count >= failure_count >= 0, so the success rate
\* (request_count - failure_count) / request_count of get_health is in [0,1]
C18_CountersConsistent ==
    \A p \in ProviderNames :
      /\ providers[p].failure_count >= 0
      /\ providers[p].request_count >= providers[p].failure_count

\* every breaker is OPEN and within its timeout
AllOpenWithinTimeout ==
    \A p \in ProviderNames :
      /\ circuit_breakers[p].state = "OPEN"
      /\ now - circuit_breakers[p].last_failure_time < timeout_seconds

\* every Route of t is a failed CircuitOpen rejection
OnlyRejections(t) ==
    \A i \in 1..Len(t.route_history) :
      /\ t.route_history[i].status = "failed"
      /\ t.route_history[i].reason = "Circuit breaker is OPEN"

\* C14: while every breaker is OPEN and within its timeout, each attempt of a
\* process_payment call adds one failed CircuitOpen Route without invoking a
\* provider, the call goes on until it has made exactly max_attempts
\* attempts, and it then returns the failure envelope with status failed
C14_AllOpenExhaustsAttempts ==
    [][(/\ pc = "attempting" /\ cur.op = "process_payment"
        /\ AllOpenWithinTimeout /\ AllOpenWithinTimeout'
        /\ OnlyRejections(transactions[cur.tx])
        /\ Len(transactions[cur.tx].route_history) = cur.attempt
        /\ AttemptPayment)
         => LET after == transactions'[cur.tx] IN
            /\ providers' = providers
            /\ OnlyRejections(after)
            /\ Len(after.route_history) = cur.attempt + 1
            /\ after.attempts = cur.attempt + 1
            /\ (pc' = "idle" <=> cur.attempt + 1 = max_attempts)
            /\ pc' = "idle"
                 => /\ after.status = "failed"
                    /\ response' = Returned("process_payment", FALSE,
                                            "Payment failed after all retry attempts",
                                            after)]_vars

C14_Witness ==
    /\ AllOpenWithinTimeout
    /\ response.op = "process_payment"
    /\ response.kind = "returned"
    /\ ~response.success
    /\ Len(response.transaction.route_history) = max_attempts
    /\ OnlyRejections(response.transaction)
    /\ response.transaction.status = "failed"
    /\ \A p \in ProviderNames : providers[p].request_count = 0

\* the amount is outside [min_amount, max_amount] of every provider
OutOfEveryRange(t) ==
    \A p \in ProviderNames :
      t.amount < capabilities(p).min_amount \/ t.amount > capabilities(p).max_amount

RejectionReasons ==
    {"Circuit breaker is OPEN", "Circuit breaker HALF_OPEN call limit exceeded"}

\* C15: a payment whose amount is outside the range of every provider never
\* succeeds: each of its Routes is failed, either a provider call that raised
\* UNSUPPORTED_TRANSACTION or a breaker rejection, no provider call gets past
\* the capability check, and process_payment returns it failed
C15_OutOfRangeFails ==
    /\ \A id \in TxIds :
         LET t == transactions[id] IN
         OutOfEveryRange(t)
           => /\ t.status # "success"
              /\ \A i \in 1..Len(t.route_history) :
                   /\ t.route_history[i].status = "failed"
                   /\ t.route_history[i].reason
                        \in {"UNSUPPORTED_TRANSACTION"} \cup RejectionReasons
    /\ (\A id \in TxIds : OutOfEveryRange(transactions[id]))
         => \A p \in ProviderNames :
              providers[p].failure_count = 0 /\ providers[p].total_processing_time = 0
    /\ (response.op = "process_payment" /\ response.kind = "returned"
        /\ OutOfEveryRange(response.transaction))
         => /\ ~response.success
            /\ response.transaction.status = "failed"
            /\ response.transaction.route_history # <<>>

\* two such payments have failed: five provider calls raised
\* UNSUPPORTED_TRANSACTION and the sixth attempt was rejected by the breaker
C15_Witness ==
    /\ pc = "idle"
    /\ Len(transactions) = 2
    /\ \A id \in TxIds :
         OutOfEveryRange(transactions[id]) /\ transactions[id].status = "failed"
    /\ \E id \in TxIds : \E i \in 1..Len(transactions[id].route_history) :
         transactions[id].route_history[i].reason = "UNSUPPORTED_TRANSACTION"
    /\ \E id \in TxIds : \E i \in 1..Len(transactions[id].route_history) :
         transactions[id].route_history[i].reason \in RejectionReasons
    /\ \E id \in TxIds : transactions[id].amount = 0
    /\ \E id \in TxIds : transactions[id].amount > 0

\* the providers eligible for t among names, with the provider and breaker
\* state the selection reads
EligibleProviders(names, t, prs, cbs) ==
    {p \in names : can_process_transaction(p, t) /\ HealthyAndNotOpen(p, prs, cbs)}

\* when at least two providers are eligible, sel is one of them and none of
\* them has a lower amount x processing_fee
CheapestOf(sel, el, t) ==
    Cardinality(el) >= 2
      => /\ sel \in el
         /\ \A q \in el : t.amount * capabilities(sel).processing_fee
                            <= t.amount * capabilities(q).processing_fee

\* C16: under cost_optimized routing every selection made for a transaction,
\* by process_payment without a preferred provider, by the switch after a
\* failed attempt (among the providers other than the failed one) and by
\* retry_payment, yields a provider whose estimated fee is at most that of
\* every eligible provider, when at least two are eligible
C16_CostOptimizedPicksCheapest ==
    [][routing_strategy = "cost_optimized"
         => /\ \A input \in TxInputs :
                 ProcessPayment(input, NoProvider)
                   => LET t == transactions'[Len(transactions')]
                      IN CheapestOf(t.provider,
                             EligibleProviders(ProviderNames, t, providers,
                                               circuit_breakers), t)
            /\ (AttemptPayment /\ pc' = "attempting")
                   => LET t == transactions'[cur.tx]
                          others == ProviderNames \ {transactions[cur.tx].provider}
                      IN CheapestOf(t.provider,
                             EligibleProviders(others, t, providers',
                                               circuit_breakers'), t)
            /\ \A id \in TxIds :
                 (RetryPayment(id) /\ pc' = "attempting")
                   => LET t == transactions'[id]
                      IN CheapestOf(t.provider,
                             EligibleProviders(ProviderNames, t, providers,
                                               circuit_breakers), t)]_vars

\* the providers of names, in the failover order, that can process t, are
\* healthy and have a CLOSED breaker
ClosedAndAble(names, t, prs, cbs) ==
    LET Ok(p) == /\ p \in names
                 /\ can_process_transaction(p, t)
                 /\ is_healthy(prs[p])
                 /\ cbs[p].state = "CLOSED"
    IN SelectSeq(<<"stripe", "adyen", "paypal", "razorpay">>, Ok)

\* the transaction was started on a provider whose breaker admitted the call
\* and has no Route that is the rejection of an OPEN breaker
NoRouteForSkipped(t) ==
    (t.route_history # <<>> /\ t.route_history[1].reason # "Circuit breaker is OPEN")
      => \A i \in 1..Len(t.route_history) :
           t.route_history[i].reason # "Circuit breaker is OPEN"

EventsOf(id) ==
    LET ForId(e) == e.transaction.id = id IN SelectSeq(events, ForId)

TerminalEvents == {"payment_success", "payment_final_failure"}

\* the events of the process_payment call that created transaction id: the
\* events of the transaction up to its first terminal event
CallEvents(id) ==
    LET es == EventsOf(id)
        ends == {k \in 1..Len(es) : es[k].event_type \in TerminalEvents}
    IN IF ends = {} THEN es
       ELSE SubSeq(es, 1, CHOOSE k \in ends : \A j \in ends : k <= j)

\* C19: the events of a process_payment call are payment_initiated, then one
\* payment_failure per failed attempt in attempt order, then one terminal
\* event, payment_success when the last Route succeeded and
\* payment_final_failure otherwise; the call emits nothing after it, and what
\* follows for the transaction is emitted by retry_payment
C19_EventOrder ==
    \A id \in TxIds :
      LET es == EventsOf(id)
          ce == CallEvents(id)
          n == Len(ce)
          ended == n > 0 /\ ce[n].event_type \in TerminalEvents
          running == pc = "attempting" /\ cur.tx = id
      IN /\ n >= 1
         /\ ce[1].event_type = "payment_initiated"
         /\ ce[1].transaction.route_history = <<>>
         /\ \A k \in 2..Len(es) : es[k].event_type # "payment_initiated"
         /\ \A k \in 2..n :
              LET h == ce[k].transaction.route_history IN
              IF k = n /\ ended
              THEN /\ h # <<>>
                   /\ ce[k].event_type = "payment_success"
                        <=> h[Len(h)].status = "success"
                   /\ ce[k].event_type = "payment_success" => Len(h) = k - 1
                   /\ ce[k].event_type = "payment_final_failure"
                        => /\ Len(h) = k - 2
                           /\ Len(h) = max_attempts
                   /\ \A i \in 1..Len(h) :
                        i < Len(h) => h[i].status = "failed"
              ELSE /\ ce[k].event_type = "payment_failure"
                   /\ Len(h) = k - 1
                   /\ h[k - 1].attempt_number = k - 1
                   /\ h[k - 1].status = "failed"
         /\ (running /\ cur.op = "process_payment") => (~ended /\ es = ce)
         /\ (running /\ cur.op = "process_payment")
              => Len(transactions[id].route_history) = n - 1
         /\ ~running => ended
         /\ Len(es) > n => \/ running /\ cur.op = "retry_payment"
                           \/ Len(transactions[id].route_history) > Len(ce[n].transaction.route_history)

C19_Witness ==
    /\ pc = "idle"
    /\ \E id \in TxIds :
         LET ce == CallEvents(id) IN
         /\ Len(ce) = 4
         /\ ce[1].event_type = "payment_initiated"
         /\ ce[2].event_type = "payment_failure"
         /\ ce[3].event_type = "payment_failure"
         /\ ce[4].event_type = "payment_success"
    /\ \E id \in TxIds :
         LET ce == CallEvents(id) IN
         /\ Len(ce) = max_attempts + 2
         /\ ce[Len(ce)].event_type = "payment_final_failure"

\* the observers whose call leaves a line on stdout: those that raise and
\* the logger whose file cannot be written
Reporting == {i \in 1..Len(monitor.observers) :
                monitor.observers[i].kind \in {"raiser", "failing_logger"}}

\* C20: with observers that raise and a logger whose write fails, every step
\* of a payment is the step the gateway takes with no observer at all (same
\* envelope, transactions, breakers and counters), no exception of an
\* observer reaches the caller, every observer receives every event, and
\* each error is reported on stdout only
C20_ObserverErrorsStayOutOfBand ==
    [][/\ \A input \in TxInputs, preferred \in PreferredInputs :
            ProcessPayment(input, preferred)
              => ProcessPaymentOn(NewMonitor, input, preferred)
       /\ AttemptPayment => AttemptPaymentOn(NewMonitor)
       /\ response'.error # "Exception"
       /\ \A i \in 1..Len(monitor'.observers) :
            /\ monitor'.observers[i].received = Len(events')
            /\ monitor'.observers[i].written =
                 IF monitor'.observers[i].kind = "logger" THEN Len(events') ELSE 0
       /\ monitor'.printed = Cardinality(Reporting') * Len(events')]_vars

C20_Witness ==
    /\ Len(monitor.observers) = 2
    /\ monitor.observers[1].kind \in {"raiser", "failing_logger"}
    /\ monitor.observers[2].kind \in {"logger", "recorder"}
    /\ monitor.observers[2].received >= 3
    /\ monitor.printed >= 3
    /\ response.op = "process_payment"
    /\ response.kind = "returned"
    /\ response.success

\* C21: simulate_scenario("reset_all") returns success and leaves no provider
\* in maintenance and every breaker CLOSED with failure_count 0
C21_ResetAllRestores ==
    [][SimulateScenario("reset_all")
         => /\ response' = Returned("simulate_scenario", TRUE, "", NoTransaction)
            /\ \A p \in ProviderNames :
                 /\ ~providers'[p].is_maintenance
                 /\ circuit_breakers'[p].state = "CLOSED"
                 /\ circuit_breakers'[p].failure_count = 0]_vars

\* C22: configure_provider raises InvalidProvider exactly when the name is not
\* a registered provider, and for a registered provider it returns without
\* an exception and the provider carries the option afterwards
C22_ConfigureProvider ==
    [][\A name \in ConfigNames, config \in ConfigInputs :
         ConfigureProvider(name, config)
           => /\ response' = Raised("configure_provider", "InvalidProviderError")
                   <=> name \notin ProviderNames
              /\ name \in ProviderNames
                   => /\ response'.kind = "returned"
                      /\ config.key = "is_maintenance"
                           => providers'[name].is_maintenance = (config.value = 1)]_vars

\* C23: force_close leaves the breaker CLOSED with failure_count,
\* success_count and half_open_calls 0 and no last_failure_time, whatever it
\* was; force_open leaves it OPEN with last_failure_time = now, so that a
\* call is rejected at every time before now + timeout_seconds and is let
\* through from then on
C23_ForcedStates ==
    [][\A p \in BreakerInputs :
         LET after == circuit_breakers'[p] IN
         /\ ForceClose(p)
              => /\ after.state = "CLOSED"
                 /\ after.failure_count = 0
                 /\ after.success_count = 0
                 /\ after.half_open_calls = 0
                 /\ after.last_failure_time = NoTime
         /\ ForceOpen(p)
              => /\ after.state = "OPEN"
                 /\ after.last_failure_time = now
                 /\ \A t \in now..(now + timeout_seconds - 1) :
                      ~call_check(after, t).admitted
                 /\ call_check(after, now + timeout_seconds).admitted]_vars

C23_Witness ==
    \E p \in BreakerInputs :
      /\ circuit_breakers[p].state = "OPEN"
      /\ circuit_breakers[p].failure_count = 0
      /\ circuit_breakers[p].half_open_calls > 0
      /\ circuit_breakers[p].last_failure_time = now
      /\ now > 0
      /\ response = NoResponse

Offerable(p, tx) ==
    /\ is_healthy(providers[p])
    /\ circuit_breakers[p].state # "OPEN"
    /\ can_process_transaction(p, tx)

\* C25: retry_payment selects the provider of the first retry attempt with
\* the transaction passed to the router: whenever some healthy provider with
\* a non-OPEN breaker can process the transaction, the provider the retry
\* starts on can process it.
C25_RetrySelectsCapable ==
    [][\A id \in 1..Len(transactions) :
         (/\ RetryPayment(id) /\ pc' = "attempting"
          /\ \E p \in ProviderNames : Offerable(p, transactions[id]))
         => can_process_transaction(transactions'[id].provider, transactions'[id])]_vars


\* when some provider is eligible, sel is one of them and none of them has a
\* higher health score
HealthiestOf(sel, el, prs) ==
    el # {}
      => /\ sel \in el
         /\ \A q \in el : ~Greater(HealthScore(prs[q]), HealthScore(prs[sel]))

\* C26: under health_based routing, when at least one provider is eligible
\* (can process the transaction, breaker not OPEN, healthy), every selection
\* made for a transaction yields an eligible provider whose score
\* success rate x 1000 / max(avg latency in ms, 1) is at least that of every
\* eligible provider
C26_HealthBasedPicksHealthiest ==
    [][routing_strategy = "health_based"
         => /\ \A input \in TxInputs \cup NarrowInputs :
                 ProcessPayment(input, NoProvider)
                   => LET t == transactions'[Len(transactions')]
                      IN HealthiestOf(t.provider,
                             EligibleProviders(ProviderNames, t, providers,
                                               circuit_breakers), providers)
            /\ (AttemptPayment /\ pc' = "attempting")
                   => LET t == transactions'[cur.tx]
                          others == ProviderNames \ {transactions[cur.tx].provider}
                      IN HealthiestOf(t.provider,
                             EligibleProviders(others, t, providers',
                                               circuit_breakers'), providers')
            /\ \A id \in TxIds :
                 (RetryPayment(id) /\ pc' = "attempting")
                   => LET t == transactions'[id]
                      IN HealthiestOf(t.provider,
                             EligibleProviders(ProviderNames, t, providers,
                                               circuit_breakers), providers)]_vars


\* sel passes the filter of the rotation whenever a provider of names does:
\* it can process t and its breaker is not OPEN
PassesFilter(sel, names, t, cbs) ==
    (\E q \in names : can_process_transaction(q, t) /\ cbs[q].state # "OPEN")
      => can_process_transaction(sel, t) /\ cbs[sel].state # "OPEN"

\* the cursor over the registry moved one position
AdvancedByOne == round_robin_counter' = (round_robin_counter + 1) % Len(ProviderOrder)

\* C27: under round_robin routing every selection made for a transaction, by
\* process_payment without a preferred provider, by the switch after a failed
\* attempt (among the providers other than the failed one) and by
\* retry_payment, returns a provider that can process the transaction and
\* whose breaker is not OPEN when such a provider exists, and advances the
\* shared cursor by exactly one
C27_RoundRobinFilters ==
    [][routing_strategy = "round_robin"
         => /\ \A input \in TxInputs :
                 ProcessPayment(input, NoProvider)
                   => LET t == transactions'[Len(transactions')]
                      IN /\ PassesFilter(t.provider, ProviderNames, t, circuit_breakers)
                         /\ AdvancedByOne
            /\ (AttemptPayment /\ pc' = "attempting")
                   => LET t == transactions'[cur.tx]
                          others == ProviderNames \ {transactions[cur.tx].provider}
                      IN /\ PassesFilter(t.provider, others, t, circuit_breakers')
                         /\ AdvancedByOne
            /\ \A id \in TxIds :
                 (RetryPayment(id) /\ pc' = "attempting")
                   => LET t == transactions'[id]
                      IN /\ PassesFilter(t.provider, ProviderNames, t, circuit_breakers)
                         /\ AdvancedByOne]_vars


\* the provider names in lexicographic order
LexOrder == <<"adyen", "paypal", "razorpay", "stripe">>

\* a ranks strictly better than b under the strategy, for transaction t
RanksAbove(strategy, a, b, t, prs) ==
    CASE strategy = "health_based" ->
           Greater(HealthScore(prs[a]), HealthScore(prs[b]))
      [] strategy = "card_network_optimized" ->
           Greater(NetworkScore(a, prs[a], t.network), NetworkScore(b, prs[b], t.network))
      [] strategy = "cost_optimized" ->
           Greater(EstimatedCost(b, t), EstimatedCost(a, t))
      [] OTHER -> FALSE

\* the eligible providers that no eligible provider ranks above
TiedBest(strategy, el, t, prs) ==
    {p \in el : \A q \in el : ~RanksAbove(strategy, q, p, t, prs)}

\* when two or more eligible providers tie on the best ranking value, sel is
\* the one of them that comes first in lexicographic order
LexSmallestOfTied(sel, strategy, el, t, prs) ==
    LET tied == TiedBest(strategy, el, t, prs)
        InTied(p) == p \in tied
    IN Cardinality(tied) >= 2 => sel = Head(SelectSeq(LexOrder, InTied))

\* C28: under the strategies that rank providers by a value (health_based,
\* card_network_optimized, cost_optimized), when two or more eligible
\* providers tie on the best value, the selection of process_payment without
\* a preferred provider and the selection of the switch after a failed
\* attempt return the tied provider whose name is lexicographically smallest
C28_TieBreakLexicographic ==
    [][(routing_strategy \in {"health_based", "card_network_optimized", "cost_optimized"})
         => /\ \A input \in TxInputs :
                 ProcessPayment(input, NoProvider)
                   => LET t == transactions'[Len(transactions')]
                      IN LexSmallestOfTied(t.provider, routing_strategy,
                             EligibleProviders(ProviderNames, t, providers,
                                               circuit_breakers), t, providers)
            /\ (AttemptPayment /\ pc' = "attempting")
                   => LET t == transactions'[cur.tx]
                          others == ProviderNames \ {transactions[cur.tx].provider}
                      IN LexSmallestOfTied(t.provider, routing_strategy,
                             EligibleProviders(others, t, providers',
                                               circuit_breakers'), t, providers')]_vars


\* when no provider of names is eligible for t, sel is a provider of names
\* that can process t with the lowest breaker failure_count, and the first
\* provider of the registry when none of names can process t
FallbackOf(sel, names, t, prs, cbs) ==
    LET able == {p \in names : can_process_transaction(p, t)}
    IN EligibleProviders(names, t, prs, cbs) = {}
         => IF able # {}
            THEN /\ sel \in able
                 /\ \A q \in able : cbs[sel].failure_count <= cbs[q].failure_count
            ELSE sel = ProviderOrder[1]

\* C29: under the strategies that select among eligible providers
\* (health_based, failover, card_network_optimized, cost_optimized), when no
\* provider is eligible the selection of process_payment without a preferred
\* provider and the selection of the switch after a failed attempt return
\* the provider with the lowest breaker failure_count among those that can
\* process the transaction, and the first provider in registry order when
\* none can
C29_FallbackLowestFailureCount ==
    [][routing_strategy # "round_robin"
         => /\ \A input \in NarrowInputs :
                 ProcessPayment(input, NoProvider)
                   => LET t == transactions'[Len(transactions')]
                      IN FallbackOf(t.provider, ProviderNames, t, providers,
                                    circuit_breakers)
            /\ (AttemptPayment /\ pc' = "attempting")
                   => LET t == transactions'[cur.tx]
                          others == ProviderNames \ {transactions[cur.tx].provider}
                      IN FallbackOf(t.provider, others, t, providers',
                                    circuit_breakers')]_vars


\* C30: in a rate-limit window that has not elapsed a provider admits a
\* supported process_payment call past the rate-limit check only while fewer
\* than rate_limit_threshold calls were admitted, counting it; every further
\* supported call raises RATE_LIMITED and changes nothing but request_count
\* (no maintenance check, no processing); the first supported call after the
\* window has elapsed resets the counter, is admitted and opens a new window
C30_RateLimitWindow ==
    [][\A p \in RateProviders, input \in TxInputs :
         LET pr == providers[p]
             tx == [NewTransaction(0, input) EXCEPT !.provider = p]
             elapsed == now > pr.rate_limit_reset_time
         IN (ProviderCall(p, input) /\ can_process_transaction(p, tx))
              => /\ providers'[p].rate_limit_counter <= rate_limit_threshold
                 /\ (~elapsed /\ pr.rate_limit_counter >= rate_limit_threshold)
                      => /\ response' = Raised("provider.process_payment", "RATE_LIMITED")
                         /\ providers'[p] = [pr EXCEPT !.request_count = @ + 1]
                 /\ (~elapsed /\ pr.rate_limit_counter < rate_limit_threshold)
                      => /\ response'.error # "RATE_LIMITED"
                         /\ providers'[p].rate_limit_counter = pr.rate_limit_counter + 1
                         /\ providers'[p].rate_limit_reset_time = pr.rate_limit_reset_time
                 /\ elapsed
                      => /\ response'.error # "RATE_LIMITED"
                         /\ providers'[p].rate_limit_counter = 1
                         /\ providers'[p].rate_limit_reset_time = now + rate_limit_window]_vars

\* a provider in maintenance refused calls at the limit with RATE_LIMITED,
\* and, the window over, was called again with a fresh counter
C30_Witness ==
    \E p \in RateProviders :
      /\ providers[p].is_maintenance
      /\ providers[p].request_count = rate_limit_threshold + MaxRateCalls
      /\ providers[p].rate_limit_counter = 1
      /\ providers[p].rate_limit_reset_time = now + rate_limit_window
      /\ response = Raised("provider.process_payment", "PROVIDER_MAINTENANCE")


\* the Routes of the stored transactions that went to provider p with the
\* given status: one per call of p.process_payment the breaker admitted
RoutesOf(p, status) ==
    {ir \in TxIds \X (1..max_attempts * (MaxTx + 1)) :
        /\ ir[2] <= Len(transactions[ir[1]].route_history)
        /\ transactions[ir[1]].route_history[ir[2]].provider = p
        /\ transactions[ir[1]].route_history[ir[2]].status = status}

BackoffOf(k) ==
    LET d == initial_delay * Power(backoff_multiplier, k - 1)
    IN IF d > max_delay THEN max_delay ELSE d

\* C32: a failed attempt number k that is followed by another attempt is
\* followed by a sleep of min(initial_delay * backoff_multiplier^(k-1),
\* max_delay) seconds, 1 s after the first and 2 s after the second; the
\* attempt that ends the call is followed by no sleep; the delay of every
\* attempt number is at most max_delay and at least that of the one before
C32_BackoffDelay ==
    [][AttemptPayment
         => LET k == cur.attempt + 1 IN
            /\ pc' = "attempting"
                 => /\ k < max_attempts
                    /\ now' - now = BackoffOf(k)
                    /\ (k = 1 => now' - now = 1)
                    /\ (k = 2 => now' - now = 2)
            /\ pc' = "idle" => now' = now
            /\ \A j \in 1..MaxDelayAttempt :
                 /\ get_delay(j) = BackoffOf(j)
                 /\ get_delay(j) <= max_delay
                 /\ get_delay(j) <= get_delay(j + 1)]_vars

\* a payment failed on all its attempts after sleeping 1 s and 2 s
C32_Witness ==
    /\ pc = "idle"
    /\ Len(transactions) = 1
    /\ Len(transactions[1].route_history) = max_attempts
    /\ transactions[1].status = "failed"
    /\ now = BackoffOf(1) + BackoffOf(2)


\* C33: an attempt touches only the attempted provider: it leaves the
\* breaker and the counters of every other provider as they were; when the
\* provider fails the call, its breaker's failure_count rises by exactly one
\* and a CLOSED breaker stays CLOSED below the threshold; so after a first
\* attempt failed on A and a second succeeded on B, A's failure_count has
\* risen by one and the providers not attempted are unchanged
C33_AttemptTouchesOneProvider ==
    [][AttemptPayment
         => LET p == transactions[cur.tx].provider
                history == transactions'[cur.tx].route_history
                route == history[Len(history)]
            IN /\ \A q \in ProviderNames \ {p} :
                    /\ providers'[q] = providers[q]
                    /\ circuit_breakers'[q] = circuit_breakers[q]
               /\ (route.status = "failed" /\ route.reason \notin RejectionReasons)
                    => /\ circuit_breakers'[p].failure_count
                            = circuit_breakers[p].failure_count + 1
                       /\ (/\ circuit_breakers[p].state = "CLOSED"
                           /\ circuit_breakers'[p].failure_count < failure_threshold)
                            => circuit_breakers'[p].state = "CLOSED"]_vars

\* the first payment of a gateway failed with TIMEOUT on A and succeeded on
\* another provider B: A's breaker is CLOSED with failure_count 1, and the
\* two providers not attempted are as constructed
C33_Witness ==
    /\ pc = "idle"
    /\ Len(transactions) = 1
    /\ LET h == transactions[1].route_history IN
       /\ Len(h) = 2
       /\ h[1].status = "failed" /\ h[1].reason = "TIMEOUT"
       /\ h[2].status = "success" /\ h[2].provider # h[1].provider
       /\ circuit_breakers[h[1].provider].failure_count = 1
       /\ circuit_breakers[h[1].provider].state = "CLOSED"
       /\ \A q \in ProviderNames \ {h[1].provider, h[2].provider} :
            providers[q] = NewProvider /\ circuit_breakers[q] = NewBreaker


\* C34: every Route of a stored transaction references the RoutingDecision
\* made for its attempt: routing_decision is not None and its
\* selected_provider is the provider of the Route
C34_RouteHasDecision ==
    \A id \in TxIds :
      \A i \in 1..Len(transactions[id].route_history) :
        LET route == transactions[id].route_history[i] IN
        /\ route.routing_decision # NoDecision
        /\ route.routing_decision.selected_provider = route.provider


\* C35: in every state a breaker reaches through successful, failed and
\* rejected calls, force_open and force_close, failure_count is at least 0,
\* and a CLOSED breaker has failure_count below failure_threshold
C35_BreakerCountBounds ==
    \A p \in BreakerInputs :
      /\ circuit_breakers[p].failure_count >= 0
      /\ circuit_breakers[p].state = "CLOSED"
           => circuit_breakers[p].failure_count < failure_threshold

\* a breaker one failure short of the threshold, still CLOSED, after calls
\* that succeeded and calls that failed
C35_Witness ==
    \E p \in BreakerInputs :
      /\ circuit_breakers[p].state = "CLOSED"
      /\ circuit_breakers[p].failure_count = failure_threshold - 1
      /\ circuit_breakers[p].success_count > 0
      /\ providers[p].request_count > failure_threshold


\* the strategies whose selectors test circuit_state.value != 'OPEN'
StateReadingStrategies ==
    {"health_based", "failover", "cost_optimized", "card_network_optimized"}

\* C36: under health_based, failover, cost_optimized and
\* card_network_optimized routing, with no preferred provider given, no
\* attempt is made on a provider other than stripe whose breaker is OPEN,
\* however long ago its last failure was; such a breaker never becomes
\* HALF_OPEN and leaves OPEN only by force_close
C36_OpenBreakerStaysOpen ==
    [][(routing_strategy \in StateReadingStrategies)
         => \A p \in ProviderNames \ {"stripe"} :
              circuit_breakers[p].state = "OPEN"
                => /\ ~(AttemptPayment /\ transactions[cur.tx].provider = p)
                   /\ circuit_breakers'[p].state # "HALF_OPEN"
                   /\ circuit_breakers'[p].state # "OPEN" => ForceClose(p)]_vars

\* a selection has just been made while a provider other than stripe that is
\* healthy and can process the transaction has a breaker that is OPEN for
\* timeout_seconds or longer
C36_Witness ==
    /\ routing_strategy \in StateReadingStrategies
    /\ pc = "attempting" /\ cur.attempt = 0
    /\ \E p \in ProviderNames \ {"stripe"} :
         /\ circuit_breakers[p].state = "OPEN"
         /\ now - circuit_breakers[p].last_failure_time >= timeout_seconds
         /\ is_healthy(providers[p])
         /\ can_process_transaction(p, transactions[cur.tx])


\* C37: with payments running on several threads, once every payment has
\* finished the registry holds all four providers, and no attempt of any
\* payment has failed because its provider was missing from the registry
C37_RegistryRestored ==
    /\ (\A w \in Workers : Thread(w).pc \in {"idle", "done"})
         => SeqToSet(registry.names) = ProviderNames
    /\ \A w \in Workers : Thread(w).errors = 0


\* C38: every exception of a provider call that the breaker admitted,
\* UNSUPPORTED_TRANSACTION, RATE_LIMITED and PROVIDER_MAINTENANCE included,
\* raises the breaker's failure_count by exactly one and stamps
\* last_failure_time; a rejection by the breaker raises nothing; a CLOSED
\* breaker whose count reaches failure_threshold this way is OPEN
C38_EveryExceptionCounts ==
    [][\A p \in RateProviders, input \in GuardedInputs :
         GuardedCall(p, input)
           => LET cb == circuit_breakers[p]
                  after == circuit_breakers'[p]
              IN /\ response'.error = "CircuitBreakerError"
                      => /\ after.failure_count = cb.failure_count
                         /\ after.last_failure_time = cb.last_failure_time
                         /\ providers' = providers
                 /\ (response'.kind = "raised" /\ response'.error # "CircuitBreakerError")
                      => /\ after.failure_count = cb.failure_count + 1
                         /\ after.last_failure_time = now
                         /\ (cb.state = "CLOSED"
                             /\ after.failure_count >= failure_threshold)
                              => after.state = "OPEN"]_vars

\* a breaker opened by failure_threshold failures none of which came from the
\* simulated processing, the last one a rate-limit error
C38_Witness ==
    \E p \in RateProviders :
      /\ circuit_breakers[p].state = "OPEN"
      /\ circuit_breakers[p].failure_count = failure_threshold
      /\ providers[p].failure_count = 0
      /\ response = Raised("call", "RATE_LIMITED")


\* C39: a transaction's route history holds at most one success Route, and
\* that Route is its last one: once a success Route has been appended, no call
\* of process_payment or retry_payment appends another Route to it
C39_SuccessIsFinal ==
    [][\A id \in TxIds :
         LET h == transactions[id].route_history
             after == transactions'[id].route_history
         IN /\ \A i \in 1..Len(after) : after[i].status = "success" => i = Len(after)
            /\ (h # <<>> /\ h[Len(h)].status = "success") => after = h]_vars

\* retry_payment has just been refused on a successful transaction, and a
\* transaction has succeeded after a failed first attempt
C39_Witness ==
    /\ pc = "idle"
    /\ response = Returned("retry_payment", FALSE, "Transaction already successful",
                           NoTransaction)
    /\ \E id \in TxIds :
         LET h == transactions[id].route_history IN
         /\ Len(h) >= 2
         /\ h[Len(h)].status = "success"
         /\ h[1].status = "failed"


\* C40: with calls made one at a time, a HALF_OPEN breaker has half_open_calls
\* strictly below half_open_max_calls, half_open_calls never exceeds
\* half_open_max_calls, and no call is rejected with "Circuit breaker
\* HALF_OPEN call limit exceeded"
C40_HalfOpenBelowLimit ==
    \A p \in BreakerInputs :
      LET cb == circuit_breakers[p] IN
      /\ cb.state = "HALF_OPEN" => cb.half_open_calls < half_open_max_calls
      /\ cb.half_open_calls <= half_open_max_calls
      /\ call_check(cb, now).reason # "Circuit breaker HALF_OPEN call limit exceeded"

\* a breaker opened by its own failures, probed after the timeout, one
\* success short of closing
C40_Witness ==
    \E p \in BreakerInputs :
      /\ circuit_breakers[p].state = "HALF_OPEN"
      /\ circuit_breakers[p].half_open_calls = half_open_max_calls - 1
      /\ circuit_breakers[p].failure_count >= failure_threshold

====
